---- MODULE Spec2Model ----
(***************************************************************************)
(* FRANZ desktop agent (src/main.py): the main loop                        *)
(* Capture -> Plan -> Act -> CaptureAfter -> Reflect, the command          *)
(* dispatcher execute_commands, the pixel mapping to_px / _mouse_abs, the  *)
(* command parser parse_commands and the calculation sandbox               *)
(* execute_python.                                                         *)
(*                                                                         *)
(* Text is a sequence of one-character strings.  A model reply or a plan   *)
(* is a sequence of lines, a line is a sequence of whitespace-delimited    *)
(* tokens, a token is a sequence of characters: str.split("\n"),           *)
(* str.strip() of a line and str.split() are taken as done; everything     *)
(* that inspects a token (upper(), lower(), startswith(), float()) is      *)
(* computed character by character.                                        *)
(***************************************************************************)
EXTENDS Integers, Sequences, FiniteSets, TLC

VARIABLES
    pc,              \* position of main(): loop, capture, plan, act, after, reflect, done, crashed
    step,            \* main.step
    stop,            \* whether the file dump/STOP exists
    observation,     \* main.observation, text
    python_context,  \* main.python_context, ordered name/value bindings
    vs,              \* main.vs, the virtual screen rectangle of the last capture
    plan_text,       \* main.plan_text, the reply of the Plan call
    reflect_text,    \* main.reflect_text, the reply of the Reflect call
    commands,        \* main.commands, the list that was dispatched
    exec_results,    \* main.exec_results
    events,          \* OS calls of the current iteration: SendInput batches, sleeps, exec runs
    stages,          \* stages of the current iteration with their outcome
    px_in,           \* pixel mapping: the coordinate value handed to to_px
    px_out,          \* pixel mapping: <<to_px(v, "x"), to_px(v, "y")>>
    px_abs,          \* pixel mapping: _mouse_abs of px_out
    in_content,      \* parse_commands: the text handed to it, a sequence of lines
    in_code,         \* execute_python: the code handed to it
    in_context,      \* execute_python: the context handed to it
    namespace,       \* execute_python: the namespace after exec()
    out_result,      \* execute_python: the first component of the return value
    out_context,     \* execute_python: the second component of the return value
    sdc,             \* capture_screen.sdc: unset, null or handle
    src_dc,          \* capture_screen.src_dc
    dst_dc,          \* capture_screen.dst_dc
    src_bmp,         \* capture_screen.src_bmp (None is unset)
    dst_bmp,         \* capture_screen.dst_bmp (None is unset)
    dst_bits,        \* capture_screen.dst_bits: unset, null or addr
    held,            \* the handles the OS has given out and not got back
    drawn,           \* the drawing calls that have succeeded
    missed,          \* the OS calls that have failed
    capture_result,  \* how capture_screen ended: none, image or raise
    wv,              \* _rgba_to_png.wv
    hv,              \* _rgba_to_png.hv
    bgra,            \* capture_screen.bgra, the bytes read back
    rgba,            \* _rgba_to_png.rgba
    png,             \* the return value of _rgba_to_png
    decoded          \* what a decoder makes of png

parseVars == <<in_content>>

pyVars == <<in_code, in_context, namespace, out_result, out_context>>

capVars == <<sdc, src_dc, dst_dc, src_bmp, dst_bmp, dst_bits, held, drawn, missed,
             capture_result>>

pngVars == <<wv, hv, bgra, rgba, png, decoded>>

vars == <<pc, step, stop, observation, python_context, vs, plan_text, reflect_text, commands,
          exec_results, events, stages, px_in, px_out, px_abs,
          parseVars, pyVars, capVars, pngVars>>

-----------------------------------------------------------------------------
(* Bounds of the model *)

MaxStep == 3
MaxExtent == 6
MaxCmds == 2

\* Lines of a text handed to parse_commands
MaxLines == 2

\* Statements of a code handed to execute_python
MaxStmts == 2

\* Width and height of an image handed to _rgba_to_png
MaxSide == 2

-----------------------------------------------------------------------------
(* Arithmetic of the Python built-ins *)

Min(a, b) == IF a <= b THEN a ELSE b

Max(a, b) == IF a >= b THEN a ELSE b

\* int(round(n / d)) for integers n and d > 0: Python 3 round() rounds an
\* exact half to the even neighbour.
RoundDiv(n, d) ==
    LET q == n \div d
        r == n % d
    IN  IF 2 * r < d THEN q
        ELSE IF 2 * r > d THEN q + 1
        ELSE IF q % 2 = 0 THEN q ELSE q + 1

-----------------------------------------------------------------------------
(* Pixel mapping *)

\* Numeric value of the coordinate ceiling of the command language.
CoordMax == 1000

\* to_px with the extents of the two axes exchanged
to_px_swapped(v, axis, rect) ==
    IF v <= CoordMax
    THEN (IF axis = "x" THEN rect[1] ELSE rect[2])
         + RoundDiv(v * (IF axis = "x" THEN rect[4] ELSE rect[3]), CoordMax)
    ELSE v

\* to_px after v = int(float(val)): v <= 1000 is scaled onto the screen
\* rectangle, a larger v is taken as a pixel.
to_px(v, axis, rect) ==
    IF v <= CoordMax
    THEN (IF axis = "x" THEN rect[1] ELSE rect[2])
         + RoundDiv(v * (IF axis = "x" THEN rect[3] ELSE rect[4]), CoordMax)
    ELSE v

\* The clamp of _mouse_abs: the pixel the cursor is sent to.
ClampPx(p, origin, extent) == Max(origin, Min(origin + extent - 1, p))

AbsMax == 65535

_mouse_abs(px, py, vx, vy, vw, vh) ==
    LET x == ClampPx(px, vx, vw) - vx
        y == ClampPx(py, vy, vh) - vy
        ax == IF vw > 1 THEN RoundDiv(x * AbsMax, vw - 1) ELSE 0
        ay == IF vh > 1 THEN RoundDiv(y * AbsMax, vh - 1) ELSE 0
    IN  <<Max(0, Min(AbsMax, ax)), Max(0, Min(AbsMax, ay))>>

-----------------------------------------------------------------------------
(* Characters and tokens *)

LowerCase == <<"a", "b", "c", "d", "e", "f", "g", "h", "i", "j", "k", "l", "m",
               "n", "o", "p", "q", "r", "s", "t", "u", "v", "w", "x", "y", "z">>

UpperCase == <<"A", "B", "C", "D", "E", "F", "G", "H", "I", "J", "K", "L", "M",
               "N", "O", "P", "Q", "R", "S", "T", "U", "V", "W", "X", "Y", "Z">>

Digits == <<"0", "1", "2", "3", "4", "5", "6", "7", "8", "9">>

IndexIn(c, table) == IF \E i \in DOMAIN table : table[i] = c
                     THEN CHOOSE i \in DOMAIN table : table[i] = c
                     ELSE 0

\* One character of `from` replaced by the character at its place in `to`
MapChar(c, k, to) == IF k > 0 THEN to[k] ELSE c

\* str.upper() and str.lower(), one character at a time
upper(t) == [i \in DOMAIN t |-> MapChar(t[i], IndexIn(t[i], LowerCase), UpperCase)]

lower(t) == [i \in DOMAIN t |-> MapChar(t[i], IndexIn(t[i], UpperCase), LowerCase)]

\* str.startswith(prefix)
startswith(t, prefix) ==
    /\ Len(t) >= Len(prefix)
    /\ \A i \in DOMAIN prefix : t[i] = prefix[i]

IsDigit(c) == IndexIn(c, Digits) > 0

RECURSIVE DigitsValue(_)
DigitsValue(t) ==
    IF t = <<>> THEN 0
    ELSE 10 * DigitsValue(SubSeq(t, 1, Len(t) - 1)) + (IndexIn(t[Len(t)], Digits) - 1)

AllDigits(t) == \A i \in DOMAIN t : IsDigit(t[i])

Unsigned(t) == IF t # <<>> /\ t[1] \in {"-", "+"} THEN Tail(t) ELSE t

Sign(t) == IF t # <<>> /\ t[1] = "-" THEN -1 ELSE 1

WholePart(body, dot) == IF dot = 0 THEN body ELSE SubSeq(body, 1, dot - 1)

FracPart(body, dot) == IF dot = 0 THEN <<>> ELSE SubSeq(body, dot + 1, Len(body))

FloatParts(sign, whole, frac) ==
    IF Len(whole) + Len(frac) > 0 /\ AllDigits(whole) /\ AllDigits(frac)
    THEN <<TRUE, sign * (1000 * DigitsValue(whole)
                         + DigitsValue(SubSeq(frac \o <<"0", "0", "0">>, 1, 3)))>>
    ELSE <<FALSE, 0>>

SplitFloat(sign, body, dot) == FloatParts(sign, WholePart(body, dot), FracPart(body, dot))

\* float(val), in thousandths, for the literal forms [+-]digits[.digits]
\* (fraction digits after the third are dropped): <<TRUE, thousandths>>; any
\* other token makes float() raise ValueError: <<FALSE, 0>>.
FloatMilli(t) == SplitFloat(Sign(t), Unsigned(t), IndexIn(".", Unsigned(t)))

\* int(f): the fraction is cut off towards zero
TruncInt(f) == <<f[1], IF f[2] >= 0 THEN f[2] \div 1000 ELSE -((-f[2]) \div 1000)>>

\* int(float(val)): <<TRUE, n>>, or <<FALSE, 0>> when float() raises
IntOfFloat(t) == TruncInt(FloatMilli(t))

\* The decimal numeral of an integer, as the model writes coordinates.
RECURSIVE NatNumeral(_)
NatNumeral(n) ==
    IF n < 10 THEN <<Digits[n + 1]>>
    ELSE Append(NatNumeral(n \div 10), Digits[(n % 10) + 1])

Numeral(n) == IF n < 0 THEN <<"-">> \o NatNumeral(-n) ELSE NatNumeral(n)

\* " ".join(tokens): the remainder of a line after its first token
RECURSIVE JoinSp(_)
JoinSp(toks) ==
    IF toks = <<>> THEN <<>>
    ELSE IF Len(toks) = 1 THEN toks[1]
    ELSE toks[1] \o <<" ">> \o JoinSp(Tail(toks))

-----------------------------------------------------------------------------
(* Vocabulary of the command language *)

KW_CLICK == <<"C", "L", "I", "C", "K">>

KW_DRAG == <<"D", "R", "A", "G">>

KW_TYPE == <<"T", "Y", "P", "E">>

KW_KEY == <<"K", "E", "Y">>

KW_PYTHON_EXECUTE == <<"P", "Y", "T", "H", "O", "N", "_", "E", "X", "E", "C", "U", "T", "E">>

KW_WAIT == <<"W", "A", "I", "T">>

-----------------------------------------------------------------------------
(* parse_commands *)

\* The branches of the loop body on cmd = parts[0].upper(), the tokens args
\* after the first and their text args_str: <<>> when the line contributes no
\* command, else a one-element sequence holding <<action, args>>.
SelectCommand(cmd, args, args_str) ==
    IF cmd = KW_CLICK
       THEN (IF Len(args) >= 2 THEN << <<"click", SubSeq(args, 1, 2)>> >> ELSE <<>>)
    ELSE IF cmd = KW_DRAG
       THEN (IF Len(args) >= 4 THEN << <<"drag", SubSeq(args, 1, 4)>> >> ELSE <<>>)
    ELSE IF cmd = KW_TYPE
       THEN << <<"type", <<args_str>> >> >>
    ELSE IF cmd = KW_KEY
       THEN (IF args # <<>> THEN << <<"key", <<lower(args[1])>> >> >> ELSE <<>>)
    ELSE IF cmd = KW_PYTHON_EXECUTE
       THEN << <<"python_execute", <<args_str>> >> >>
    ELSE IF cmd = KW_WAIT
       THEN (IF args # <<>> THEN << <<"wait", <<args[1]>> >> >> ELSE <<>>)
    ELSE <<>>

\* The command one line contributes
ParseLine(line) ==
    IF line = <<>> \/ startswith(line[1], <<"#">>) THEN <<>>
    ELSE SelectCommand(upper(line[1]), Tail(line), JoinSp(Tail(line)))

\* The parser putting each command before the ones found so far
RECURSIVE parse_commands_prepend(_)
parse_commands_prepend(content) ==
    IF content = <<>> THEN <<>>
    ELSE parse_commands_prepend(Tail(content)) \o ParseLine(content[1])

RECURSIVE parse_commands(_)
parse_commands(content) ==
    IF content = <<>> THEN <<>>
    ELSE ParseLine(content[1]) \o parse_commands(Tail(content))

-----------------------------------------------------------------------------
(* execute_python *)

\* Keys of safe_builtins
safe_builtins ==
    {<<"a", "b", "s">>,
     <<"a", "l", "l">>,
     <<"a", "n", "y">>,
     <<"b", "i", "n">>,
     <<"b", "o", "o", "l">>,
     <<"c", "h", "r">>,
     <<"d", "i", "c", "t">>,
     <<"e", "n", "u", "m", "e", "r", "a", "t", "e">>,
     <<"f", "i", "l", "t", "e", "r">>,
     <<"f", "l", "o", "a", "t">>,
     <<"h", "e", "x">>,
     <<"i", "n", "t">>,
     <<"l", "e", "n">>,
     <<"l", "i", "s", "t">>,
     <<"m", "a", "p">>,
     <<"m", "a", "x">>,
     <<"m", "i", "n">>,
     <<"o", "c", "t">>,
     <<"o", "r", "d">>,
     <<"p", "o", "w">>,
     <<"r", "a", "n", "g", "e">>,
     <<"r", "e", "v", "e", "r", "s", "e", "d">>,
     <<"r", "o", "u", "n", "d">>,
     <<"s", "e", "t">>,
     <<"s", "o", "r", "t", "e", "d">>,
     <<"s", "t", "r">>,
     <<"s", "u", "m">>,
     <<"t", "u", "p", "l", "e">>,
     <<"z", "i", "p">>}

T_ERROR == <<"E", "R", "R", "O", "R", ":", " ">>

T_OK == <<"O", "K">>

E_Syntax == <<"S", "y", "n", "t", "a", "x", "E", "r", "r", "o", "r", ":", " ", "i", "n", "v", "a", "l", "i", "d", " ", "s", "y", "n", "t", "a", "x">>

E_Name == <<"N", "a", "m", "e", "E", "r", "r", "o", "r", ":", " ", "n", "a", "m", "e", " ", "i", "s", " ", "n", "o", "t", " ", "d", "e", "f", "i", "n", "e", "d">>

E_Type == <<"T", "y", "p", "e", "E", "r", "r", "o", "r", ":", " ", "u", "n", "s", "u", "p", "p", "o", "r", "t", "e", "d", " ", "o", "p", "e", "r", "a", "n", "d">>

E_Attr == <<"A", "t", "t", "r", "i", "b", "u", "t", "e", "E", "r", "r", "o", "r", ":", " ", "n", "o", " ", "a", "t", "t", "r", "i", "b", "u", "t", "e", " ", "a", "p", "p", "e", "n", "d">>

E_ZeroDiv == <<"Z", "e", "r", "o", "D", "i", "v", "i", "s", "i", "o", "n", "E", "r", "r", "o", "r", ":", " ", "i", "n", "t", "e", "g", "e", "r", " ", "m", "o", "d", "u", "l", "o", " ", "b", "y", " ", "z", "e", "r", "o">>

N_builtins == <<"_", "_", "b", "u", "i", "l", "t", "i", "n", "s", "_", "_">>

\* The pieces of `text` between occurrences of the character sep
RECURSIVE SplitAt(_, _, _)
SplitAt(text, sep, k) ==
    IF k = 0 THEN <<text>>
    ELSE <<SubSeq(text, 1, k - 1)>>
         \o SplitAt(SubSeq(text, k + 1, Len(text)), sep,
                    IndexIn(sep, SubSeq(text, k + 1, Len(text))))

SplitOn(text, sep) == SplitAt(text, sep, IndexIn(sep, text))

IsIdentChar(c) ==
    \/ IndexIn(c, LowerCase) > 0
    \/ IndexIn(c, UpperCase) > 0
    \/ IsDigit(c)
    \/ c = "_"

IsIdent(t) ==
    /\ t # <<>>
    /\ ~IsDigit(t[1])
    /\ \A i \in DOMAIN t : IsIdentChar(t[i])

IsIntLit(t) == t # <<>> /\ AllDigits(t)

IsOperand(t) == IsIdent(t) \/ IsIntLit(t)

FirstOf(plus, times, mod) == IF plus > 0 THEN plus ELSE IF times > 0 THEN times ELSE mod

\* Position of the operator of an expression, 0 when it has none
OpIndex(e) == FirstOf(IndexIn("+", e), IndexIn("*", e), IndexIn("%", e))

T_append == <<".", "a", "p", "p", "e", "n", "d", "(">>

\* The statements the model runs, spaces removed:
\*    name = int,  name = operand (+|*|%) operand,  name = [],
\*    name.append(int)   and the empty statement,
\* an operand being an integer literal or a name.  Any other statement is
\* reported as a syntax error.
ExprKind(e, k) ==
    IF e = <<"[", "]">> THEN "newlist"
    ELSE IF IsIntLit(e) THEN "const"
    ELSE IF k > 1 /\ IsOperand(SubSeq(e, 1, k - 1)) /\ IsOperand(SubSeq(e, k + 1, Len(e)))
    THEN "binop"
    ELSE "bad"

IsAppend(st, dot) ==
    /\ dot > 1
    /\ IsIdent(SubSeq(st, 1, dot - 1))
    /\ Len(st) > dot + 8
    /\ SubSeq(st, dot, dot + 7) = T_append
    /\ st[Len(st)] = ")"
    /\ IsIntLit(SubSeq(st, dot + 8, Len(st) - 1))

RightSide(st, eq) == SubSeq(st, eq + 1, Len(st))

KindAt(st, eq, dot) ==
    IF st = <<>> THEN "pass"
    ELSE IF eq > 1 /\ IsIdent(SubSeq(st, 1, eq - 1))
    THEN ExprKind(RightSide(st, eq), OpIndex(RightSide(st, eq)))
    ELSE IF IsAppend(st, dot) THEN "append"
    ELSE "bad"

StmtKind(st) == KindAt(st, IndexIn("=", st), IndexIn(".", st))

\* An ordered name -> value mapping (a dict): a sequence of <<name, value>>.
HasKey(d, k) == \E i \in DOMAIN d : d[i][1] = k

Lookup(d, k) == d[CHOOSE i \in DOMAIN d : d[i][1] = k][2]

\* d[k] = v: an existing key keeps its place, a new key goes last
Store(d, k, v) ==
    IF HasKey(d, k)
    THEN [i \in DOMAIN d |-> IF d[i][1] = k THEN <<k, v>> ELSE d[i]]
    ELSE Append(d, <<k, v>>)

Keys(d) == {d[i][1] : i \in DOMAIN d}

\* Value of an operand: <<"ok", value>>, or <<"err", text>>.  A name is looked
\* up in the namespace, then in the built-ins (a function, no operand of
\* arithmetic).
EvalOperand(t, ns) ==
    IF IsIntLit(t) THEN <<"ok", <<"int", DigitsValue(t)>> >>
    ELSE IF HasKey(ns, t) THEN <<"ok", Lookup(ns, t)>>
    ELSE IF t \in safe_builtins THEN <<"ok", <<"builtin">> >>
    ELSE <<"err", E_Name>>

RECURSIVE Repeat(_, _)
Repeat(l, n) == IF n <= 0 THEN <<>> ELSE l \o Repeat(l, n - 1)

EvalBinop(op, a, b) ==
    IF a[1] = "int" /\ b[1] = "int"
    THEN (IF op = "+" THEN <<"ok", <<"int", a[2] + b[2]>> >>
          ELSE IF op = "*" THEN <<"ok", <<"int", a[2] * b[2]>> >>
          ELSE IF b[2] = 0 THEN <<"err", E_ZeroDiv>>
          ELSE <<"ok", <<"int", a[2] % b[2]>> >>)
    ELSE IF op = "+" /\ a[1] = "list" /\ b[1] = "list"
    THEN <<"ok", <<"list", a[2] \o b[2]>> >>
    ELSE IF op = "*" /\ a[1] = "list" /\ b[1] = "int"
    THEN <<"ok", <<"list", Repeat(a[2], b[2])>> >>
    ELSE IF op = "*" /\ a[1] = "int" /\ b[1] = "list"
    THEN <<"ok", <<"list", Repeat(b[2], a[2])>> >>
    ELSE <<"err", E_Type>>

\* The left operand is evaluated first
BinopValue(op, a, b) ==
    IF a[1] = "err" THEN a ELSE IF b[1] = "err" THEN b ELSE EvalBinop(op, a[2], b[2])

ExprValue(kind, e, k, ns) ==
    IF kind = "newlist" THEN <<"ok", <<"list", <<>> >> >>
    ELSE IF kind = "const" THEN <<"ok", <<"int", DigitsValue(e)>> >>
    ELSE BinopValue(e[k], EvalOperand(SubSeq(e, 1, k - 1), ns),
                          EvalOperand(SubSeq(e, k + 1, Len(e)), ns))

\* The machine state m = [ns, ctx, shared, err] of a run of exec():
\*   ns      the namespace exec() runs in,
\*   ctx     the caller's context dict, whose list objects the namespace shares,
\*   shared  the names whose namespace binding still is the caller's object,
\*   err     <<>> or the text of the exception raised.
\* name = value: the namespace is bound anew, the caller's dict is not
Assign(m, name, r) ==
    IF r[1] = "err" THEN [m EXCEPT !.err = r[2]]
    ELSE [m EXCEPT !.ns = Store(m.ns, name, r[2]), !.shared = m.shared \ {name}]

AssignStmt(m, kind, name, e) == Assign(m, name, ExprValue(kind, e, OpIndex(e), m.ns))

\* list.append works in place: the caller's dict sees it while it holds the
\* same list object
Grow(m, name, grown) ==
    [m EXCEPT !.ns = Store(m.ns, name, grown),
              !.ctx = IF name \in m.shared THEN Store(m.ctx, name, grown) ELSE m.ctx]

AppendTo(m, name, n, target) ==
    IF target[1] = "err" THEN [m EXCEPT !.err = target[2]]
    ELSE IF target[2][1] # "list" THEN [m EXCEPT !.err = E_Attr]
    ELSE Grow(m, name, <<"list", Append(target[2][2], <<"int", n>>)>>)

AppendNamed(m, name, n) == AppendTo(m, name, n, EvalOperand(name, m.ns))

AppendStmt(m, st, dot) ==
    AppendNamed(m, SubSeq(st, 1, dot - 1), DigitsValue(SubSeq(st, dot + 8, Len(st) - 1)))

RunStmt(m, st, kind, eq) ==
    IF m.err # <<>> \/ kind = "pass" THEN m
    ELSE IF kind = "append" THEN AppendStmt(m, st, IndexIn(".", st))
    ELSE AssignStmt(m, kind, SubSeq(st, 1, eq - 1), RightSide(st, eq))

\* One statement; nothing runs after an exception
ExecStmt(st, m) == RunStmt(m, st, StmtKind(st), IndexIn("=", st))

RECURSIVE ExecStmts(_, _)
ExecStmts(sts, m) ==
    IF sts = <<>> THEN m ELSE ExecStmts(Tail(sts), ExecStmt(sts[1], m))

\* namespace = {"__builtins__": safe_builtins, **context}
Machine(context) ==
    [ns |-> << <<N_builtins, <<"builtins">> >> >> \o context,
     ctx |-> context,
     shared |-> Keys(context),
     err |-> <<>>]

\* A syntax error is raised before anything runs
Compile(sts, m) ==
    IF \E i \in DOMAIN sts : StmtKind(sts[i]) = "bad"
    THEN [m EXCEPT !.err = E_Syntax]
    ELSE ExecStmts(sts, m)

NoSpace(c) == c # " "

\* exec(code, namespace)
Exec(code, context) == Compile(SplitOn(SelectSeq(code, NoSpace), ";"), Machine(context))

\* str.join
RECURSIVE JoinWith(_, _)
JoinWith(parts, sep) ==
    IF parts = <<>> THEN <<>>
    ELSE IF Len(parts) = 1 THEN parts[1]
    ELSE parts[1] \o sep \o JoinWith(Tail(parts), sep)

\* str(value)
RECURSIVE Str(_)
Str(v) ==
    IF v[1] = "int" THEN Numeral(v[2])
    ELSE IF v[1] = "list"
    THEN <<"[">> \o JoinWith([i \in DOMAIN v[2] |-> Str(v[2][i])], <<",", " ">>) \o <<"]">>
    ELSE <<"<", ">">>

\* k not in safe_builtins and not k.startswith("__")
Kept(b) == b[1] \notin safe_builtins /\ ~startswith(b[1], <<"_", "_">>)

\* The bindings of new_context whose key is not in context
Fresh(new_context, context) == SelectSeq(new_context, LAMBDA b : ~HasKey(context, b[1]))

\* "; ".join(results) if results else "OK"
Summary(fresh) ==
    IF fresh = <<>> THEN T_OK
    ELSE JoinWith([i \in DOMAIN fresh |-> fresh[i][1] \o <<" ", "=", " ">> \o Str(fresh[i][2])],
                  <<";", " ">>)

\* The two returns of execute_python
Returned(m, context, new_context) ==
    IF m.err # <<>> THEN <<T_ERROR \o m.err, m.ctx>>
    ELSE <<Summary(Fresh(new_context, context)), new_context>>

AfterExec(m, context) == Returned(m, context, SelectSeq(m.ns, Kept))

\* execute_python(code, context) = <<result_str, context>>
execute_python(code, context) == AfterExec(Exec(code, context), context)

-----------------------------------------------------------------------------
(* Input synthesis: what each helper hands to SendInput *)

\* _mouse_move: one batch holding one absolute move
_mouse_move(px, py, rect) ==
    << <<"send", << <<"move">> \o _mouse_abs(px, py, rect[1], rect[2], rect[3], rect[4]) >> >> >>

\* The click handing button-down and button-up to SendInput in two calls
_mouse_click_split == << <<"send", << <<"down">> >> >>, <<"send", << <<"up">> >> >> >>

\* _mouse_click: one batch holding button-down, button-up
_mouse_click == << <<"send", << <<"down">>, <<"up">> >> >> >>

\* the single-event batches of the drag branch
button_down == << <<"send", << <<"down">> >> >> >>

button_up == << <<"send", << <<"up">> >> >> >>

\* _key_vk: one batch holding key-down, key-up of a virtual key
_key_vk(code) == << <<"send", << <<"vk", code, "down">>, <<"vk", code, "up">> >> >> >>

\* _type_text: one batch holding down/up per character, no call for no character
RECURSIVE UnicodeItems(_)
UnicodeItems(text) ==
    IF text = <<>> THEN <<>>
    ELSE << <<"unicode", text[1], "down">>, <<"unicode", text[1], "up">> >>
         \o UnicodeItems(Tail(text))

_type_text(text) == IF text = <<>> THEN <<>> ELSE << <<"send", UnicodeItems(text)>> >>

\* time.sleep, in microseconds
sleep(us) == << <<"sleep", us>> >>

VK_MAP ==
    <<<<<<"e", "n", "t", "e", "r">>, 13>>,
      <<<<"e", "s", "c", "a", "p", "e">>, 27>>,
      <<<<"e", "s", "c">>, 27>>,
      <<<<"t", "a", "b">>, 9>>,
      <<<<"w", "i", "n", "d", "o", "w", "s">>, 91>>,
      <<<<"w", "i", "n">>, 91>>,
      <<<<"b", "a", "c", "k", "s", "p", "a", "c", "e">>, 8>>,
      <<<<"d", "e", "l", "e", "t", "e">>, 46>>,
      <<<<"d", "e", "l">>, 46>>,
      <<<<"s", "p", "a", "c", "e">>, 32>>,
      <<<<"u", "p">>, 38>>,
      <<<<"d", "o", "w", "n">>, 40>>,
      <<<<"l", "e", "f", "t">>, 37>>,
      <<<<"r", "i", "g", "h", "t">>, 39>>>>

-----------------------------------------------------------------------------
(* execute_commands *)

\* Cap of the wait branch: min(10.0, float(args[0])), the result divided by 1000.0
\* being seconds.  In thousandths of the argument's unit.
WaitCapMilli == 10000

\* What one command does: [raised, evs, res, ctx].  raised: the branch threw
\* (to_px or float() on a token that is no number, sleep() of a negative
\* length); evs: the OS calls made; res: the texts appended to exec_results
\* by the branch itself; ctx: the sandbox context after it.
Thrown(ctx) == [raised |-> TRUE, evs |-> <<>>, res |-> <<>>, ctx |-> ctx]

Done(evs, res, ctx) == [raised |-> FALSE, evs |-> evs, res |-> res, ctx |-> ctx]

ClickCalls(x, y, rect) ==
    _mouse_move(to_px(x, "x", rect), to_px(y, "y", rect), rect)
    \o sleep(20000) \o _mouse_click \o sleep(50000)

\* The drag that does not let the button go
DragCalls_no_release(x1, y1, x2, y2, rect) ==
    _mouse_move(to_px(x1, "x", rect), to_px(y1, "y", rect), rect)
    \o sleep(20000) \o button_down \o sleep(60000)
    \o _mouse_move(to_px(x2, "x", rect), to_px(y2, "y", rect), rect)
    \o sleep(40000) \o sleep(50000)

\* The drag pressing the button only once the cursor is at the end point
DragCalls_press_late(x1, y1, x2, y2, rect) ==
    _mouse_move(to_px(x1, "x", rect), to_px(y1, "y", rect), rect)
    \o sleep(20000)
    \o _mouse_move(to_px(x2, "x", rect), to_px(y2, "y", rect), rect)
    \o sleep(60000) \o button_down
    \o sleep(40000) \o button_up \o sleep(50000)

DragCalls(x1, y1, x2, y2, rect) ==
    _mouse_move(to_px(x1, "x", rect), to_px(y1, "y", rect), rect)
    \o sleep(20000) \o button_down \o sleep(60000)
    \o _mouse_move(to_px(x2, "x", rect), to_px(y2, "y", rect), rect)
    \o sleep(40000) \o button_up \o sleep(50000)

KeyCalls(key_name) ==
    IF HasKey(VK_MAP, key_name) THEN _key_vk(Lookup(VK_MAP, key_name)) \o sleep(50000)
    ELSE <<>>

PythonRun(code, ctx, r) ==
    Done(<< <<"exec", code, ctx>> >>, << <<"PYTHON", code, r[1]>> >>, r[2])

\* sleep(min(10.0, float(args[0])) / 1000.0); sleep raises on a negative length
WaitRun(f, ctx) ==
    IF ~f[1] \/ Min(WaitCapMilli, f[2]) < 0 THEN Thrown(ctx)
    ELSE Done(sleep(Min(WaitCapMilli, f[2])), <<>>, ctx)

\* The if/elif chain, num[i] being int(float(args[i]))
Branch(action, args, num, rect, ctx) ==
    IF action = "click" /\ Len(args) >= 2
    THEN IF ~num[1][1] \/ ~num[2][1] THEN Thrown(ctx)
         ELSE Done(ClickCalls(num[1][2], num[2][2], rect), <<>>, ctx)
    ELSE IF action = "drag" /\ Len(args) >= 4
    THEN IF \E i \in 1..4 : ~num[i][1] THEN Thrown(ctx)
         ELSE Done(DragCalls(num[1][2], num[2][2], num[3][2], num[4][2], rect), <<>>, ctx)
    ELSE IF action = "type"
    THEN Done(_type_text(args[1]) \o sleep(40000), <<>>, ctx)
    ELSE IF action = "key"
    THEN Done(KeyCalls(lower(args[1])), <<>>, ctx)
    ELSE IF action = "python_execute"
    THEN PythonRun(args[1], ctx, execute_python(args[1], ctx))
    ELSE IF action = "wait"
    THEN WaitRun(FloatMilli(args[1]), ctx)
    ELSE Done(<<>>, <<>>, ctx)

RunCommand(cmd, rect, ctx) ==
    Branch(cmd[1], cmd[2], [i \in DOMAIN cmd[2] |-> IntOfFloat(cmd[2][i])], rect, ctx)

\* The accumulator acc = [results, ctx, evs] after one command with outcome
\* r: an exception of the branch is caught inside the loop body and appended
\* to the results as one text.
Caught(acc, r, action) ==
    [results |-> acc.results \o r.res
                    \o (IF r.raised THEN << <<"ERROR", action>> >> ELSE <<>>),
     ctx |-> r.ctx,
     evs |-> acc.evs \o r.evs]

\* The loop with the try around it instead of inside it: the first exception
\* ends the dispatch.
RECURSIVE StopAtRaise(_, _, _, _)
StopAtRaise(cmds, rect, r, next) ==
    IF r.raised \/ Len(cmds) = 1 THEN next
    ELSE StopAtRaise(Tail(cmds), rect, RunCommand(cmds[2], rect, next.ctx),
                     Caught(next, RunCommand(cmds[2], rect, next.ctx), cmds[2][1]))

ExecLoop_stop(cmds, rect, acc) ==
    IF cmds = <<>> THEN acc
    ELSE StopAtRaise(cmds, rect, RunCommand(cmds[1], rect, acc.ctx),
                     Caught(acc, RunCommand(cmds[1], rect, acc.ctx), cmds[1][1]))

\* The for loop of execute_commands
RECURSIVE ExecLoop(_, _, _)
ExecLoop(cmds, rect, acc) ==
    IF cmds = <<>> THEN acc
    ELSE ExecLoop(Tail(cmds), rect,
                  Caught(acc, RunCommand(cmds[1], rect, acc.ctx), cmds[1][1]))

\* execute_commands(commands, vs, python_context):
\* [results |-> exec_results, ctx |-> python_context, evs |-> the OS calls made]
execute_commands(cmds, rect, ctx) ==
    ExecLoop(cmds, rect, [results |-> <<>>, ctx |-> ctx, evs |-> <<>>])

-----------------------------------------------------------------------------
(* Inputs of the model *)

\* Virtual screen rectangles <<vx, vy, vw, vh>> a capture may report
MainRects == {<<0, 0, 1920, 1080>>, <<-1280, -200, 3200, 1080>>}

L_click == <<<<"C", "L", "I", "C", "K">>, <<"2", "5", "0">>, <<"8", "0", "0">>>>

L_wait == <<<<"W", "A", "I", "T">>, <<"5", "0", "0">>>>

L_badclick == <<<<"c", "l", "i", "c", "k">>, <<"a", "b", "c">>, <<"5">>>>

L_shortclick == <<<<"C", "L", "I", "C", "K">>, <<"5">>>>

L_edge == <<<<"C", "l", "i", "c", "k">>, <<"1", "0", "0", "0">>, <<"0">>>>

L_drag == <<<<"D", "R", "A", "G">>, <<"0">>, <<"0">>, <<"1", "0", "0", "0">>, <<"5", "0", "0">>>>

L_baddrag == <<<<"d", "r", "a", "g">>, <<"1", "0">>, <<"1", "0">>, <<"x">>, <<"1", "0">>>>

L_type == <<<<"T", "Y", "P", "E">>, <<"h", "i">>, <<"y", "o", "u">>>>

L_key == <<<<"K", "E", "Y">>, <<"E", "n", "t", "e", "r">>>>

L_badkey == <<<<"k", "e", "y">>, <<"f", "1", "3">>>>

L_py1 == <<<<"P", "Y", "T", "H", "O", "N", "_", "E", "X", "E", "C", "U", "T", "E">>, <<"x">>, <<"=">>, <<"2", "*", "6">>>>

L_py2 == <<<<"p", "y", "t", "h", "o", "n", "_", "e", "x", "e", "c", "u", "t", "e">>, <<"y", "=", "x", "+", "1">>>>

L_py3 == <<<<"P", "Y", "T", "H", "O", "N", "_", "E", "X", "E", "C", "U", "T", "E">>, <<"l", "=", "[", "]", ";", "l", ".", "a", "p", "p", "e", "n", "d", "(", "1", ")", ";",
      "z", "=", "1", "%", "0">>>>

L_py4 == <<<<"P", "Y", "T", "H", "O", "N", "_", "E", "X", "E", "C", "U", "T", "E">>, <<"l">>, <<"=">>, <<"[", "]">>>>

L_py5 == <<<<"P", "Y", "T", "H", "O", "N", "_", "E", "X", "E", "C", "U", "T", "E">>, <<"l", ".", "a", "p", "p", "e", "n", "d", "(", "1", ")", ";", "z", "=", "1", "%", "0">>>>

L_negwait == <<<<"w", "a", "i", "t">>, <<"-", "5">>>>

L_smallwait == <<<<"W", "A", "I", "T">>, <<"7", ".", "5">>>>

L_comment == <<<<"#">>, <<"C", "L", "I", "C", "K">>, <<"1">>, <<"1">>>>

L_unknown == <<<<"S", "C", "R", "O", "L", "L">>, <<"3">>>>

L_click500 == <<<<"C", "L", "I", "C", "K">>, <<"5", "0", "0">>, <<"5", "0", "0">>>>

L_keyenter == <<<<"K", "E", "Y">>, <<"e", "n", "t", "e", "r">>>>

L_longclick == <<<<"C", "L", "I", "C", "K">>, <<"1">>, <<"2">>, <<"3">>>>

L_shortdrag == <<<<"D", "r", "a", "g">>, <<"1">>, <<"2">>, <<"3">>>>

L_longdrag == <<<<"D", "R", "A", "G">>, <<"1">>, <<"2">>, <<"3">>, <<"4">>, <<"5">>>>

L_nokey == <<<<"K", "E", "Y">>>>

L_nowait == <<<<"w", "a", "i", "t">>>>

L_notype == <<<<"T", "y", "p", "e">>>>

\* Lines of the texts parse_commands is run on
ParseLines ==
    {<<>>, L_comment, L_unknown, L_click500, L_keyenter, L_key, L_click, L_edge,
     L_badclick, L_shortclick, L_longclick, L_drag, L_baddrag, L_shortdrag, L_longdrag,
     L_type, L_notype, L_nokey, L_wait, L_nowait, L_negwait, L_py1}

\* Replies of the Plan call that are text: sequences of lines
PlanTexts ==
    { <<>>,
      <<L_comment, L_unknown, <<>>, L_shortclick>>,
      <<L_click, L_wait>>,
      <<L_badclick, L_key, L_edge>>,
      <<L_py1, L_negwait, L_py2>>,
      <<L_py2, L_type>>,
      <<L_baddrag, L_drag, L_badkey>>,
      <<L_py3, L_smallwait>>,
      <<L_py4, L_py5>> }

\* Lines whose commands the dispatcher is run on
ExecLines == {L_click, L_wait, L_badclick, L_edge, L_drag, L_baddrag, L_type, L_key,
              L_badkey, L_py1, L_py2, L_py3, L_negwait, L_smallwait}

ExecCmds == {ParseLine(l)[1] : l \in ExecLines}

RECURSIVE SeqsUpTo(_, _)
SeqsUpTo(S, n) ==
    IF n = 0 THEN {<<>>}
    ELSE LET shorter == SeqsUpTo(S, n - 1)
         IN  shorter \cup {Append(q, e) : q \in shorter, e \in S}

C_x12 == << <<<<"x">>, <<"int", 12>> >> >>

ExecContexts == {<<>>, C_x12}

\* Statements of the codes execute_python is run on
PyStmts ==
    { <<"x", " ", "=", " ", "2", " ", "*", " ", "6">>,
      <<"y", "=", "x", "+", "1">>,
      <<"x", "=", "x", "+", "1">>,
      <<"l", "=", "[", "]">>,
      <<"l", ".", "a", "p", "p", "e", "n", "d", "(", "1", ")">>,
      <<"z", "=", "1", "%", "0">>,
      <<"z", "=", "q", "+", "1">>,
      <<"n", "=", "l", "+", "x">>,
      <<"_", "_", "t", "=", "1">>,
      <<"s", "u", "m", "=", "5">>,
      <<"x", "=", "2", "+">> }

PyCodes == {JoinWith(sts, <<";">>) : sts \in SeqsUpTo(PyStmts, MaxStmts)}

C_l == << <<<<"l">>, <<"list", <<>> >> >> >>

C_xl == << <<<<"x">>, <<"int", 12>> >>, <<<<"l">>, <<"list", << <<"int", 7>> >> >> >> >>

PyContexts == {<<>>, C_x12, C_l, C_xl}

\* Replies of the Reflect call that are text
ReflectTexts ==
    { <<"D", "o", "n", "e", ".">>,
      <<" ", "I", "d", "l", "e", " ", "\n">>,
      <<>> }

\* Screen rectangles and coordinate values the pixel mapping is run on
PxOrigins == {-3, 0, 5}

PxExtents == (1..MaxExtent) \cup {1920}

PxRects == {<<o, -o, e, e + 1>> : o \in PxOrigins, e \in PxExtents}

PxInputs == (-2)..(CoordMax + 2)

\* The values of the variables of a function that is not running
ParseIdle == in_content = <<>>

PyIdle ==
    /\ in_code = <<>>
    /\ in_context = <<>>
    /\ namespace = <<>>
    /\ out_result = <<>>
    /\ out_context = <<>>

CapIdle ==
    /\ sdc = "unset"
    /\ src_dc = "unset"
    /\ dst_dc = "unset"
    /\ src_bmp = "unset"
    /\ dst_bmp = "unset"
    /\ dst_bits = "unset"
    /\ held = {}
    /\ drawn = {}
    /\ missed = {}
    /\ capture_result = "none"

PngIdle ==
    /\ wv = 0
    /\ hv = 0
    /\ bgra = <<>>
    /\ rgba = <<>>
    /\ png = <<>>
    /\ decoded = <<>>

-----------------------------------------------------------------------------
(* main *)

InitialObservation ==
    <<"S", "y", "s", "t", "e", "m", " ", "s", "t", "a", "r", "t", "e", "d", ".", " ", "C",
          "a", "p", "a", "b", "l", "e", " ", "o", "f", ":", " ", "c", "l", "i", "c", "k",
          "i", "n", "g", ",", " ", "d", "r", "a", "g", "g", "i", "n", "g", ",", " ", "t",
          "y", "p", "i", "n", "g", ",", " ", "p", "r", "e", "s", "s", "i", "n", "g", " ",
          "k", "e", "y", "s", ",", " ", "e", "x", "e", "c", "u", "t", "i", "n", "g", " ",
          "P", "y", "t", "h", "o", "n", " ", "c", "o", "d", "e", ",", " ", "w", "a", "i",
          "t", "i", "n", "g", ".", " ", "M", "o", "n", "i", "t", "o", "r", "i", "n", "g",
          " ", "s", "c", "r", "e", "e", "n", " ", "f", "o", "r", " ", "t", "a", "s", "k",
          "s", " ", "o", "r", " ", "i", "n", "s", "t", "r", "u", "c", "t", "i", "o", "n",
          "s", ".">>

Whitespace == {" ", "\n", "\t"}

\* str.strip()
RECURSIVE strip(_)
strip(t) ==
    IF t = <<>> THEN t
    ELSE IF t[1] \in Whitespace THEN strip(Tail(t))
    ELSE IF t[Len(t)] \in Whitespace THEN strip(SubSeq(t, 1, Len(t) - 1))
    ELSE t

\* f" [Step {step} technical error]"
ErrorMarker(n) ==
    <<" ", "[", "S", "t", "e", "p", " ">> \o Numeral(n)
    \o <<" ", "t", "e", "c", "h", "n", "i", "c", "a", "l", " ", "e", "r", "r", "o", "r", "]">>

\* no default command
DefaultCommands_none == <<>>

\* commands = [("wait", ["2000"])]
DefaultCommands == << <<"wait", <<<<"2", "0", "0", "0">>>> >> >>

Init ==
    /\ pc = "loop"
    /\ step = 0
    /\ stop = FALSE
    /\ observation = InitialObservation
    /\ python_context = <<>>
    /\ vs = <<0, 0, 0, 0>>
    /\ plan_text = <<"unset">>
    /\ reflect_text = <<"unset">>
    /\ commands = <<>>
    /\ exec_results = <<>>
    /\ events = <<>>
    /\ stages = <<>>
    /\ px_in = 0
    /\ px_out = <<0, 0>>
    /\ px_abs = <<0, 0>>
    /\ ParseIdle
    /\ PyIdle
    /\ CapIdle
    /\ PngIdle

\* The file dump/STOP is created from outside the process.
CreateStop ==
    /\ pc \in {"loop", "capture", "plan", "act", "after", "reflect"}
    /\ stop = FALSE
    /\ stop' = TRUE
    /\ UNCHANGED <<pc, step, observation, python_context, vs, plan_text, reflect_text, commands,
                   exec_results, events, stages, px_in, px_out, px_abs,
                   parseVars, pyVars, capVars, pngVars>>

\* LoopHead whose stop check sits at the end of the loop body, where the
\* continue of a failed capture or Plan call jumps past it
LoopHead_latecheck ==
    /\ pc = "loop"
    /\ IF stop /\ (stages = <<>> \/ stages[Len(stages)] \notin
                      {<<"Capture", "raise">>, <<"Plan", "raise">>, <<"CaptureAfter", "raise">>})
       THEN /\ pc' = "done"
            /\ UNCHANGED <<step, events, stages>>
       ELSE /\ step < MaxStep
            /\ step' = step + 1
            /\ pc' = "capture"
            /\ events' = <<>>
            /\ stages' = <<>>
    /\ UNCHANGED <<stop, observation, python_context, vs, plan_text, reflect_text, commands,
                   exec_results, px_in, px_out, px_abs,
                   parseVars, pyVars, capVars, pngVars>>

\* while True: if (dump / "STOP").exists(): break; step += 1
LoopHead ==
    /\ pc = "loop"
    /\ IF stop
       THEN /\ pc' = "done"
            /\ UNCHANGED <<step, events, stages>>
       ELSE /\ step < MaxStep
            /\ step' = step + 1
            /\ pc' = "capture"
            /\ events' = <<>>
            /\ stages' = <<>>
    /\ UNCHANGED <<stop, observation, python_context, vs, plan_text, reflect_text, commands,
                   exec_results, px_in, px_out, px_abs,
                   parseVars, pyVars, capVars, pngVars>>

\* Capture whose except branch lacks the continue
Capture_fallthrough ==
    /\ pc = "capture"
    /\ \/ \E rect \in MainRects :
             /\ vs' = rect
             /\ pc' = "plan"
             /\ stages' = Append(stages, <<"Capture", "ok">>)
       \/ /\ pc' = "plan"
          /\ stages' = Append(stages, <<"Capture", "raise">>)
          /\ UNCHANGED vs
    /\ UNCHANGED <<step, stop, observation, python_context, plan_text, reflect_text,
                   commands, exec_results, events, px_in, px_out, px_abs,
                   parseVars, pyVars, capVars, pngVars>>

\* png_current, vs = capture_screen(RES_W, RES_H), or the except branch
Capture ==
    /\ pc = "capture"
    /\ \/ \E rect \in MainRects :
             /\ vs' = rect
             /\ pc' = "plan"
             /\ stages' = Append(stages, <<"Capture", "ok">>)
       \/ /\ pc' = "loop"
          /\ stages' = Append(stages, <<"Capture", "raise">>)
          /\ UNCHANGED vs
    /\ UNCHANGED <<step, stop, observation, python_context, plan_text, reflect_text,
                   commands,
                   exec_results, events, px_in, px_out, px_abs,
                   parseVars, pyVars, capVars, pngVars>>

\* plan_text = call_vlm(...): the call raises, or returns the content of the
\* reply, which is text or is not (null, a list of parts).
Plan ==
    /\ pc = "plan"
    /\ \/ /\ pc' = "loop"
          /\ stages' = Append(stages, <<"Plan", "raise">>)
          /\ UNCHANGED plan_text
       \/ \E text \in PlanTexts :
             /\ plan_text' = <<"text", text>>
             /\ pc' = "act"
             /\ stages' = Append(stages, <<"Plan", "text">>)
       \/ /\ plan_text' = <<"nontext">>
          /\ pc' = "act"
          /\ stages' = Append(stages, <<"Plan", "nontext">>)
    /\ UNCHANGED <<step, stop, observation, python_context, vs, reflect_text, commands,
                   exec_results, events, px_in, px_out, px_abs,
                   parseVars, pyVars, capVars, pngVars>>

\* if not commands: commands = [("wait", ["2000"])]
OrDefault(parsed) == IF parsed = <<>> THEN DefaultCommands ELSE parsed

\* commands = parse_commands(plan_text), the default for an empty list, and
\* execute_commands.  parse_commands calls content.split: on a content that
\* is no text this raises AttributeError outside every try block.
Act ==
    /\ pc = "act"
    /\ IF plan_text[1] # "text"
       THEN /\ pc' = "crashed"
            /\ stages' = Append(stages, <<"Act", "crash">>)
            /\ UNCHANGED <<python_context, commands, exec_results, events>>
       ELSE \E cmds \in {OrDefault(parse_commands(plan_text[2]))} :
            \E r \in {execute_commands(cmds, vs, python_context)} :
                /\ commands' = cmds
                /\ exec_results' = r.results
                /\ python_context' = r.ctx
                /\ events' = events \o r.evs
                /\ pc' = "after"
                /\ stages' = Append(stages, <<"Act", "ok">>)
    /\ UNCHANGED <<step, stop, observation, vs, plan_text, reflect_text, px_in, px_out, px_abs,
                   parseVars, pyVars, capVars, pngVars>>

\* png_after, vs = capture_screen(RES_W, RES_H), or the except branch
CaptureAfter ==
    /\ pc = "after"
    /\ \/ \E rect \in MainRects :
             /\ vs' = rect
             /\ pc' = "reflect"
             /\ stages' = Append(stages, <<"CaptureAfter", "ok">>)
       \/ /\ pc' = "loop"
          /\ stages' = Append(stages, <<"CaptureAfter", "raise">>)
          /\ UNCHANGED vs
    /\ UNCHANGED <<step, stop, observation, python_context, plan_text, reflect_text,
                   commands,
                   exec_results, events, px_in, px_out, px_abs,
                   parseVars, pyVars, capVars, pngVars>>

\* Reflect whose except branch leaves the observation as it is
Reflect_keep ==
    /\ pc = "reflect"
    /\ \/ \E text \in ReflectTexts :
             /\ reflect_text' = <<"text", text>>
             /\ observation' = strip(text)
             /\ stages' = Append(stages, <<"Reflect", "text">>)
       \/ /\ reflect_text' = <<"nontext">>
          /\ observation' = observation
          /\ stages' = Append(stages, <<"Reflect", "nontext">>)
       \/ /\ observation' = observation
          /\ stages' = Append(stages, <<"Reflect", "raise">>)
          /\ UNCHANGED reflect_text
    /\ pc' = "loop"
    /\ UNCHANGED <<step, stop, python_context, vs, plan_text, commands,
                   exec_results, events, px_in, px_out, px_abs,
                   parseVars, pyVars, capVars, pngVars>>

\* Reflect that adds the reply to the observation instead of replacing it
Reflect_concat ==
    /\ pc = "reflect"
    /\ \/ \E text \in ReflectTexts :
             /\ reflect_text' = <<"text", text>>
             /\ observation' = observation \o strip(text)
             /\ stages' = Append(stages, <<"Reflect", "text">>)
       \/ /\ reflect_text' = <<"nontext">>
          /\ observation' = observation \o ErrorMarker(step)
          /\ stages' = Append(stages, <<"Reflect", "nontext">>)
       \/ /\ observation' = observation \o ErrorMarker(step)
          /\ stages' = Append(stages, <<"Reflect", "raise">>)
          /\ UNCHANGED reflect_text
    /\ pc' = "loop"
    /\ UNCHANGED <<step, stop, python_context, vs, plan_text, commands,
                   exec_results, events, px_in, px_out, px_abs,
                   parseVars, pyVars, capVars, pngVars>>

\* reflect_text = call_vlm(...); observation = reflect_text.strip(), or the
\* except branch: the call raised, or strip() raised on a content that is no text.
Reflect ==
    /\ pc = "reflect"
    /\ \/ \E text \in ReflectTexts :
             /\ reflect_text' = <<"text", text>>
             /\ observation' = strip(text)
             /\ stages' = Append(stages, <<"Reflect", "text">>)
       \/ /\ reflect_text' = <<"nontext">>
          /\ observation' = observation \o ErrorMarker(step)
          /\ stages' = Append(stages, <<"Reflect", "nontext">>)
       \/ /\ observation' = observation \o ErrorMarker(step)
          /\ stages' = Append(stages, <<"Reflect", "raise">>)
          /\ UNCHANGED reflect_text
    /\ pc' = "loop"
    /\ UNCHANGED <<step, stop, python_context, vs, plan_text, commands,
                   exec_results, events, px_in, px_out, px_abs,
                   parseVars, pyVars, capVars, pngVars>>

Next ==
    \/ CreateStop
    \/ LoopHead
    \/ Capture
    \/ Plan
    \/ Act
    \/ CaptureAfter
    \/ Reflect

Spec == Init /\ [][Next]_vars

\* parse_commands and execute_commands return or raise: weak fairness of
\* Act, written out.  Act can be taken exactly when pc = "act", and no other
\* action leaves "act".
ActFair == []<>(pc # "act") \/ []<><<Act>>_vars

\* main() runs on: a statement of the loop that can be executed is executed,
\* every capture, model call and dispatch returning in the end.  Nothing
\* obliges anyone to create the STOP file.
Fairness ==
    /\ WF_vars(LoopHead)
    /\ WF_vars(Capture)
    /\ WF_vars(Plan)
    /\ ActFair
    /\ WF_vars(CaptureAfter)
    /\ WF_vars(Reflect)

SpecLive == Init /\ [][Next]_vars /\ Fairness

-----------------------------------------------------------------------------
(* The dispatcher on its own: execute_commands on every short command list *)

InitExec ==
    /\ pc = "exec"
    /\ commands \in SeqsUpTo(ExecCmds, MaxCmds)
    /\ vs \in MainRects
    /\ python_context \in ExecContexts
    /\ step = 0
    /\ stop = FALSE
    /\ observation = InitialObservation
    /\ plan_text = <<"unset">>
    /\ reflect_text = <<"unset">>
    /\ exec_results = <<>>
    /\ events = <<>>
    /\ stages = <<>>
    /\ px_in = 0
    /\ px_out = <<0, 0>>
    /\ px_abs = <<0, 0>>
    /\ ParseIdle
    /\ PyIdle
    /\ CapIdle
    /\ PngIdle

\* exec_results, python_context = execute_commands(commands, vs, python_context)
ExecuteCommands ==
    /\ pc = "exec"
    /\ \E r \in {execute_commands(commands, vs, python_context)} :
           /\ exec_results' = r.results
           /\ python_context' = r.ctx
           /\ events' = r.evs
    /\ pc' = "exec_done"
    /\ UNCHANGED <<step, stop, observation, vs, plan_text, reflect_text, commands,
                   stages, px_in, px_out, px_abs,
                   parseVars, pyVars, capVars, pngVars>>

NextExec == ExecuteCommands

SpecExec == InitExec /\ [][NextExec]_vars

-----------------------------------------------------------------------------
(* The pixel mapping on its own: to_px and _mouse_abs on every coordinate *)

InitPx ==
    /\ pc = "px"
    /\ vs \in PxRects
    /\ px_in \in PxInputs
    /\ px_out = <<0, 0>>
    /\ px_abs = <<0, 0>>
    /\ ParseIdle
    /\ PyIdle
    /\ CapIdle
    /\ PngIdle
    /\ step = 0
    /\ stop = FALSE
    /\ observation = InitialObservation
    /\ python_context = <<>>
    /\ plan_text = <<"unset">>
    /\ reflect_text = <<"unset">>
    /\ commands = <<>>
    /\ exec_results = <<>>
    /\ events = <<>>
    /\ stages = <<>>

\* x, y = to_px(v, "x"), to_px(v, "y"); _mouse_move(x, y, vs)
PixelMap ==
    /\ pc = "px"
    /\ LET x == to_px(px_in, "x", vs)
           y == to_px(px_in, "y", vs)
       IN  /\ px_out' = <<x, y>>
           /\ px_abs' = _mouse_abs(x, y, vs[1], vs[2], vs[3], vs[4])
    /\ pc' = "px_done"
    /\ UNCHANGED <<step, stop, observation, python_context, vs, plan_text, reflect_text,
                   commands, exec_results, events, stages, px_in,
                   parseVars, pyVars, capVars, pngVars>>

NextPx == PixelMap

SpecPx == InitPx /\ [][NextPx]_vars

-----------------------------------------------------------------------------
(* The parser on its own: parse_commands on every short text *)

InitParse ==
    /\ pc = "parse"
    /\ in_content \in SeqsUpTo(ParseLines, MaxLines)
    /\ commands = <<>>
    /\ step = 0
    /\ stop = FALSE
    /\ observation = InitialObservation
    /\ python_context = <<>>
    /\ vs = <<0, 0, 0, 0>>
    /\ plan_text = <<"unset">>
    /\ reflect_text = <<"unset">>
    /\ exec_results = <<>>
    /\ events = <<>>
    /\ stages = <<>>
    /\ px_in = 0
    /\ px_out = <<0, 0>>
    /\ px_abs = <<0, 0>>
    /\ PyIdle
    /\ CapIdle
    /\ PngIdle

\* commands = parse_commands(content)
ParseCommands ==
    /\ pc = "parse"
    /\ commands' = parse_commands(in_content)
    /\ pc' = "parse_done"
    /\ UNCHANGED <<step, stop, observation, python_context, vs, plan_text, reflect_text,
                   exec_results, events, stages, px_in, px_out, px_abs,
                   parseVars, pyVars, capVars, pngVars>>

NextParse == ParseCommands

SpecParse == InitParse /\ [][NextParse]_vars

-----------------------------------------------------------------------------
(* The sandbox on its own: execute_python on short codes and contexts *)

InitPy ==
    /\ pc = "py"
    /\ in_code \in PyCodes
    /\ in_context \in PyContexts
    /\ namespace = <<>>
    /\ out_result = <<>>
    /\ out_context = <<>>
    /\ step = 0
    /\ stop = FALSE
    /\ observation = InitialObservation
    /\ python_context = <<>>
    /\ vs = <<0, 0, 0, 0>>
    /\ plan_text = <<"unset">>
    /\ reflect_text = <<"unset">>
    /\ commands = <<>>
    /\ exec_results = <<>>
    /\ events = <<>>
    /\ stages = <<>>
    /\ px_in = 0
    /\ px_out = <<0, 0>>
    /\ px_abs = <<0, 0>>
    /\ ParseIdle
    /\ CapIdle
    /\ PngIdle

\* result, context = execute_python(code, context); namespace is the dict
\* exec() ran in, as it is when exec() returns or raises
ExecutePython ==
    /\ pc = "py"
    /\ \E r \in {execute_python(in_code, in_context)} :
           /\ out_result' = r[1]
           /\ out_context' = r[2]
    /\ namespace' = Exec(in_code, in_context).ns
    /\ pc' = "py_done"
    /\ UNCHANGED <<step, stop, observation, python_context, vs, plan_text, reflect_text,
                   commands, exec_results, events, stages, px_in, px_out, px_abs,
                   in_code, in_context, parseVars, capVars, pngVars>>

NextPy == ExecutePython

SpecPy == InitPy /\ [][NextPy]_vars

-----------------------------------------------------------------------------
(* capture_screen on its own, one OS call per step.  The GDI functions are  *)
(* called through ctypes without argtypes, restype or errcheck: a call that *)
(* fails returns 0 and raises nothing.  The one statement that raises is    *)
(* from_address on a NULL dst_bits.  A release call on a handle the OS gave *)
(* out gives it back.                                                       *)

notCap == <<step, stop, observation, python_context, plan_text, reflect_text, commands,
            exec_results, events, stages, px_in, px_out, px_abs,
            parseVars, pyVars, pngVars>>

InitCap ==
    /\ pc = "cap_metrics"
    /\ CapIdle
    /\ vs = <<0, 0, 0, 0>>
    /\ step = 0
    /\ stop = FALSE
    /\ observation = InitialObservation
    /\ python_context = <<>>
    /\ plan_text = <<"unset">>
    /\ reflect_text = <<"unset">>
    /\ commands = <<>>
    /\ exec_results = <<>>
    /\ events = <<>>
    /\ stages = <<>>
    /\ px_in = 0
    /\ px_out = <<0, 0>>
    /\ px_abs = <<0, 0>>
    /\ ParseIdle
    /\ PyIdle
    /\ PngIdle

\* The handle a creating call returns: a new one, or 0
Acquire(name, outcome) == IF outcome = "handle" THEN held \cup {name} ELSE held

\* The calls that failed so far, with this one if it failed
Note(call, ok) == IF ok THEN missed ELSE missed \cup {call}

\* vx, vy, vw, vh = _virtual_screen()
VirtualScreen ==
    /\ pc = "cap_metrics"
    /\ vs' \in MainRects
    /\ pc' = "cap_getdc"
    /\ UNCHANGED <<capVars, notCap>>

\* sdc = user32.GetDC(0)
GetDC ==
    /\ pc = "cap_getdc"
    /\ \E h \in {"handle", "null"} :
          /\ sdc' = h
          /\ held' = Acquire("sdc", h)
          /\ missed' = Note("GetDC", h = "handle")
    /\ pc' = "cap_src_dc"
    /\ UNCHANGED <<src_dc, dst_dc, src_bmp, dst_bmp, dst_bits, drawn, capture_result, vs, notCap>>

\* src_dc = gdi32.CreateCompatibleDC(sdc)
CreateSrcDC ==
    /\ pc = "cap_src_dc"
    /\ \E h \in {"handle", "null"} :
          /\ src_dc' = h
          /\ held' = Acquire("src_dc", h)
          /\ missed' = Note("CreateCompatibleDC_src", h = "handle")
    /\ pc' = "cap_dst_dc"
    /\ UNCHANGED <<sdc, dst_dc, src_bmp, dst_bmp, dst_bits, drawn, capture_result, vs, notCap>>

\* dst_dc = gdi32.CreateCompatibleDC(sdc)
CreateDstDC ==
    /\ pc = "cap_dst_dc"
    /\ \E h \in {"handle", "null"} :
          /\ dst_dc' = h
          /\ held' = Acquire("dst_dc", h)
          /\ missed' = Note("CreateCompatibleDC_dst", h = "handle")
    /\ pc' = "cap_src_bmp"
    /\ UNCHANGED <<sdc, src_dc, src_bmp, dst_bmp, dst_bits, drawn, capture_result, vs, notCap>>

\* src_bmp = gdi32.CreateDIBSection(sdc, ...)
CreateSrcBitmap ==
    /\ pc = "cap_src_bmp"
    /\ \E h \in {"handle", "null"} :
          /\ src_bmp' = h
          /\ held' = Acquire("src_bmp", h)
          /\ missed' = Note("CreateDIBSection_src", h = "handle")
    /\ pc' = "cap_src_select"
    /\ UNCHANGED <<sdc, src_dc, dst_dc, dst_bmp, dst_bits, drawn, capture_result, vs, notCap>>

\* gdi32.SelectObject(src_dc, src_bmp)
SelectSrc ==
    /\ pc = "cap_src_select"
    /\ missed' = Note("SelectObject_src", src_dc = "handle" /\ src_bmp = "handle")
    /\ pc' = "cap_bitblt"
    /\ UNCHANGED <<sdc, src_dc, dst_dc, src_bmp, dst_bmp, dst_bits, held, drawn,
                   capture_result, vs, notCap>>

\* gdi32.BitBlt(src_dc, 0, 0, vw, vh, sdc, vx, vy, ...): the screen is copied,
\* or the call returns 0 (a NULL handle, no bitmap selected, no access to the
\* desktop)
BitBlt ==
    /\ pc = "cap_bitblt"
    /\ \/ /\ sdc = "handle"
          /\ "SelectObject_src" \notin missed
          /\ drawn' = drawn \cup {"BitBlt"}
          /\ UNCHANGED missed
       \/ /\ missed' = missed \cup {"BitBlt"}
          /\ UNCHANGED drawn
    /\ pc' = "cap_dst_bmp"
    /\ UNCHANGED <<sdc, src_dc, dst_dc, src_bmp, dst_bmp, dst_bits, held, capture_result,
                   vs, notCap>>

\* dst_bmp = gdi32.CreateDIBSection(sdc, ..., ctypes.byref(dst_bits), None, 0)
CreateDstBitmap ==
    /\ pc = "cap_dst_bmp"
    /\ \E h \in {"handle", "null"} :
          /\ dst_bmp' = h
          /\ dst_bits' = IF h = "handle" THEN "addr" ELSE "null"
          /\ held' = Acquire("dst_bmp", h)
          /\ missed' = Note("CreateDIBSection_dst", h = "handle")
    /\ pc' = "cap_dst_select"
    /\ UNCHANGED <<sdc, src_dc, dst_dc, src_bmp, drawn, capture_result, vs, notCap>>

\* gdi32.SelectObject(dst_dc, dst_bmp); gdi32.SetStretchBltMode(dst_dc, 4)
SelectDst ==
    /\ pc = "cap_dst_select"
    /\ missed' = Note("SelectObject_dst", dst_dc = "handle" /\ dst_bmp = "handle")
    /\ pc' = "cap_stretch"
    /\ UNCHANGED <<sdc, src_dc, dst_dc, src_bmp, dst_bmp, dst_bits, held, drawn,
                   capture_result, vs, notCap>>

\* gdi32.StretchBlt(dst_dc, 0, 0, dw, dh, src_dc, 0, 0, vw, vh, ...)
StretchBlt ==
    /\ pc = "cap_stretch"
    /\ \/ /\ src_dc = "handle"
          /\ "SelectObject_dst" \notin missed
          /\ drawn' = drawn \cup {"StretchBlt"}
          /\ UNCHANGED missed
       \/ /\ missed' = missed \cup {"StretchBlt"}
          /\ UNCHANGED drawn
    /\ pc' = "cap_read"
    /\ UNCHANGED <<sdc, src_dc, dst_dc, src_bmp, dst_bmp, dst_bits, held, capture_result,
                   vs, notCap>>

\* bgra = bytes((ctypes.c_ubyte * size).from_address(dst_bits.value)): raises
\* TypeError when dst_bits is NULL; the finally block runs either way
ReadBits ==
    /\ pc = "cap_read"
    /\ capture_result' = IF dst_bits = "null" THEN "raising" ELSE "none"
    /\ pc' = "cap_del_dst_bmp"
    /\ UNCHANGED <<sdc, src_dc, dst_dc, src_bmp, dst_bmp, dst_bits, held, drawn, missed,
                   vs, notCap>>

\* if dst_bmp: gdi32.DeleteObject(dst_bmp)
DeleteDstBitmap ==
    /\ pc = "cap_del_dst_bmp"
    /\ held' = IF dst_bmp = "handle" THEN held \ {"dst_bmp"} ELSE held
    /\ pc' = "cap_del_src_bmp"
    /\ UNCHANGED <<sdc, src_dc, dst_dc, src_bmp, dst_bmp, dst_bits, drawn, missed,
                   capture_result, vs, notCap>>

\* if src_bmp: gdi32.DeleteObject(src_bmp)
DeleteSrcBitmap ==
    /\ pc = "cap_del_src_bmp"
    /\ held' = IF src_bmp = "handle" THEN held \ {"src_bmp"} ELSE held
    /\ pc' = "cap_del_dst_dc"
    /\ UNCHANGED <<sdc, src_dc, dst_dc, src_bmp, dst_bmp, dst_bits, drawn, missed,
                   capture_result, vs, notCap>>

\* gdi32.DeleteDC(dst_dc)
DeleteDstDC ==
    /\ pc = "cap_del_dst_dc"
    /\ held' = held \ {"dst_dc"}
    /\ pc' = "cap_del_src_dc"
    /\ UNCHANGED <<sdc, src_dc, dst_dc, src_bmp, dst_bmp, dst_bits, drawn, missed,
                   capture_result, vs, notCap>>

\* gdi32.DeleteDC(src_dc)
DeleteSrcDC ==
    /\ pc = "cap_del_src_dc"
    /\ held' = held \ {"src_dc"}
    /\ pc' = "cap_release"
    /\ UNCHANGED <<sdc, src_dc, dst_dc, src_bmp, dst_bmp, dst_bits, drawn, missed,
                   capture_result, vs, notCap>>

\* user32.ReleaseDC(0, sdc)
ReleaseDC ==
    /\ pc = "cap_release"
    /\ held' = held \ {"sdc"}
    /\ pc' = "cap_return"
    /\ UNCHANGED <<sdc, src_dc, dst_dc, src_bmp, dst_bmp, dst_bits, drawn, missed,
                   capture_result, vs, notCap>>

\* The exception of the try block goes on to the caller, or the bytes read
\* are turned into the image that is returned
CaptureReturn ==
    /\ pc = "cap_return"
    /\ capture_result' = IF capture_result = "raising" THEN "raise" ELSE "image"
    /\ pc' = "cap_done"
    /\ UNCHANGED <<sdc, src_dc, dst_dc, src_bmp, dst_bmp, dst_bits, held, drawn, missed,
                   vs, notCap>>

NextCap ==
    \/ VirtualScreen
    \/ GetDC
    \/ CreateSrcDC
    \/ CreateDstDC
    \/ CreateSrcBitmap
    \/ SelectSrc
    \/ BitBlt
    \/ CreateDstBitmap
    \/ SelectDst
    \/ StretchBlt
    \/ ReadBits
    \/ DeleteDstBitmap
    \/ DeleteSrcBitmap
    \/ DeleteDstDC
    \/ DeleteSrcDC
    \/ ReleaseDC
    \/ CaptureReturn

SpecCap == InitCap /\ [][NextCap]_vars

-----------------------------------------------------------------------------
(* _rgba_to_png and the channel reordering of capture_screen.  A byte       *)
(* string is a sequence of bytes <<"b", n>>.  zlib.compress and zlib.crc32  *)
(* are library functions: the compressed stream is kept as the one element  *)
(* <<"deflated", data>> of the byte string it is part of and a checksum as  *)
(* the four elements <<"crcbyte", <<"crc32", data>>, k>>; the decoder       *)
(* inflates the former and recomputes the latter.                           *)

B(n) == <<"b", n>>

Bytes(ns) == [i \in DOMAIN ns |-> B(ns[i])]

\* struct.pack(">I", n)
PackU32(n) ==
    Bytes(<<(n \div 16777216) % 256, (n \div 65536) % 256, (n \div 256) % 256, n % 256>>)

\* zlib.crc32(data) & 0xFFFFFFFF
crc32(data) == <<"crc32", data>>

\* struct.pack(">I", crc)
PackCrc(crc) == [k \in 1..4 |-> <<"crcbyte", crc, k>>]

\* zlib.compress(data, 6)
zlib_compress(data) == << <<"deflated", data>> >>

\* b"\x89PNG\r\n\x1a\n"
Signature == Bytes(<<137, 80, 78, 71, 13, 10, 26, 10>>)

T_IHDR == Bytes(<<73, 72, 68, 82>>)

T_IDAT == Bytes(<<73, 68, 65, 84>>)

T_IEND == Bytes(<<73, 69, 78, 68>>)

\* _chunk(tag, data)
_chunk(tag, data) == PackU32(Len(data)) \o tag \o data \o PackCrc(crc32(tag \o data))

\* for y in range(hv): raw.append(0); raw.extend(rgba[y * stride : (y + 1) * stride])
RECURSIVE Scanlines(_, _, _, _)
Scanlines(buf, stride, y, rows) ==
    IF y >= rows THEN <<>>
    ELSE <<B(0)>> \o SubSeq(buf, y * stride + 1, (y + 1) * stride)
         \o Scanlines(buf, stride, y + 1, rows)

\* The encoder writing the rows without their filter byte
RECURSIVE RowsOnly(_, _, _, _)
RowsOnly(buf, stride, y, rows) ==
    IF y >= rows THEN <<>>
    ELSE SubSeq(buf, y * stride + 1, (y + 1) * stride) \o RowsOnly(buf, stride, y + 1, rows)

_rgba_to_png_unfiltered(buf, w, h) ==
    Signature
    \o _chunk(T_IHDR, PackU32(w) \o PackU32(h) \o Bytes(<<8, 6, 0, 0, 0>>))
    \o _chunk(T_IDAT, zlib_compress(RowsOnly(buf, w * 4, 0, h)))
    \o _chunk(T_IEND, <<>>)

\* _rgba_to_png(rgba, wv, hv)
_rgba_to_png(buf, w, h) ==
    Signature
    \o _chunk(T_IHDR, PackU32(w) \o PackU32(h) \o Bytes(<<8, 6, 0, 0, 0>>))
    \o _chunk(T_IDAT, zlib_compress(Scanlines(buf, w * 4, 0, h)))
    \o _chunk(T_IEND, <<>>)

\* rgba[0::4] = bgra[2::4]; rgba[1::4] = bgra[1::4]; rgba[2::4] = bgra[0::4];
\* rgba[3::4] = b"\xff" * (size // 4)
ToRgba(buf) ==
    [i \in DOMAIN buf |->
        IF i % 4 = 1 THEN buf[i + 2]
        ELSE IF i % 4 = 2 THEN buf[i]
        ELSE IF i % 4 = 3 THEN buf[i - 2]
        ELSE B(255)]

\* Pixels <<blue, green, red, alpha>> the screen is read back as
PngPixels == {<<0, 0, 0, 0>>, <<1, 2, 3, 255>>, <<255, 128, 64, 7>>}

\* The bytes of a sequence of pixels
PixelBytes(pixels) == [i \in 1..(4 * Len(pixels)) |-> B(pixels[(i + 3) \div 4][((i - 1) % 4) + 1])]

\* A decoder of the format: the signature, chunks of length, tag, payload and
\* checksum, the header first and the end chunk last, 8-bit RGBA, the data
\* inflated and every scanline unfiltered by its filter byte.
IsByte(x) == x[1] = "b"

U32(bs) == bs[1][2] * 16777216 + bs[2][2] * 65536 + bs[3][2] * 256 + bs[4][2]

RECURSIVE ReadChunks(_)
ChunkOf(bs, n) ==
    IF Len(bs) < 12 + n THEN << <<"bad">> >>
    ELSE IF SubSeq(bs, 9 + n, 12 + n) # PackCrc(crc32(SubSeq(bs, 5, 8 + n)))
    THEN << <<"bad">> >>
    ELSE << <<"chunk", SubSeq(bs, 5, 8), SubSeq(bs, 9, 8 + n)>> >>
         \o ReadChunks(SubSeq(bs, 13 + n, Len(bs)))

ReadChunks(bs) ==
    IF bs = <<>> THEN <<>>
    ELSE IF Len(bs) < 12 \/ \E i \in 1..4 : ~IsByte(bs[i]) THEN << <<"bad">> >>
    ELSE ChunkOf(bs, U32(SubSeq(bs, 1, 4)))

\* zlib.decompress of the payload of the data chunk
Inflate(data) ==
    IF Len(data) = 1 /\ data[1][1] = "deflated" THEN <<TRUE, data[1][2]>> ELSE <<FALSE, <<>> >>

\* The rows without their filter bytes; only filter type 0 occurs
RECURSIVE Unfilter(_, _, _, _)
Unfilter(raw, stride, y, rows) ==
    IF y >= rows THEN <<>>
    ELSE SubSeq(raw, y * (stride + 1) + 2, (y + 1) * (stride + 1))
         \o Unfilter(raw, stride, y + 1, rows)

Pixels(w, h, raw) ==
    IF ~raw[1] \/ Len(raw[2]) # h * (4 * w + 1) THEN <<"error", "data">>
    ELSE IF \E y \in 0..(h - 1) : raw[2][y * (4 * w + 1) + 1] # B(0) THEN <<"error", "filter">>
    ELSE <<"image", w, h, Unfilter(raw[2], 4 * w, 0, h)>>

Header(ihdr, idat) ==
    IF Len(ihdr) # 13 \/ \E i \in 1..13 : ~IsByte(ihdr[i]) THEN <<"error", "header">>
    ELSE IF SubSeq(ihdr, 9, 13) # Bytes(<<8, 6, 0, 0, 0>>) THEN <<"error", "format">>
    ELSE IF U32(SubSeq(ihdr, 1, 4)) = 0 \/ U32(SubSeq(ihdr, 5, 8)) = 0 THEN <<"error", "size">>
    ELSE Pixels(U32(SubSeq(ihdr, 1, 4)), U32(SubSeq(ihdr, 5, 8)), Inflate(idat))

Chunks(cs) ==
    IF \E i \in DOMAIN cs : cs[i][1] = "bad" THEN <<"error", "chunk">>
    ELSE IF Len(cs) # 3 THEN <<"error", "chunks">>
    ELSE IF cs[1][2] # T_IHDR \/ cs[2][2] # T_IDAT \/ cs[3][2] # T_IEND \/ cs[3][3] # <<>>
    THEN <<"error", "order">>
    ELSE Header(cs[1][3], cs[2][3])

Decode(stream) ==
    IF Len(stream) < 8 \/ SubSeq(stream, 1, 8) # Signature THEN <<"error", "signature">>
    ELSE Chunks(ReadChunks(SubSeq(stream, 9, Len(stream))))

notPng == <<step, stop, observation, python_context, vs, plan_text, reflect_text, commands,
            exec_results, events, stages, px_in, px_out, px_abs,
            parseVars, pyVars, capVars>>

InitPng ==
    /\ pc = "png_bits"
    /\ wv \in 1..MaxSide
    /\ hv \in 1..MaxSide
    /\ bgra \in {PixelBytes(f) : f \in [1..(wv * hv) -> PngPixels]}
    /\ rgba = <<>>
    /\ png = <<>>
    /\ decoded = <<>>
    /\ step = 0
    /\ stop = FALSE
    /\ observation = InitialObservation
    /\ python_context = <<>>
    /\ vs = <<0, 0, 0, 0>>
    /\ plan_text = <<"unset">>
    /\ reflect_text = <<"unset">>
    /\ commands = <<>>
    /\ exec_results = <<>>
    /\ events = <<>>
    /\ stages = <<>>
    /\ px_in = 0
    /\ px_out = <<0, 0>>
    /\ px_abs = <<0, 0>>
    /\ ParseIdle
    /\ PyIdle
    /\ CapIdle

\* rgba = bytearray(len(bgra)) and the four slice assignments
Reorder ==
    /\ pc = "png_bits"
    /\ rgba' = ToRgba(bgra)
    /\ pc' = "png_encode"
    /\ UNCHANGED <<wv, hv, bgra, png, decoded, notPng>>

\* return _rgba_to_png(bytes(rgba), dw, dh)
Encode ==
    /\ pc = "png_encode"
    /\ png' = _rgba_to_png(rgba, wv, hv)
    /\ pc' = "png_decode"
    /\ UNCHANGED <<wv, hv, bgra, rgba, decoded, notPng>>

\* The image is read by the receiver
DecodePng ==
    /\ pc = "png_decode"
    /\ decoded' = Decode(png)
    /\ pc' = "png_done"
    /\ UNCHANGED <<wv, hv, bgra, rgba, png, notPng>>

NextPng ==
    \/ Reorder
    \/ Encode
    \/ DecodePng

SpecPng == InitPng /\ [][NextPng]_vars

-----------------------------------------------------------------------------
(* Properties of the pixel mapping (SpecPx) *)

Mapped == pc = "px_done" /\ px_in \in 0..CoordMax

\* C10 as stated: to_px is monotonic nondecreasing over [0,1000], returns a
\* pixel within [origin, origin+extent-1] for every screen rectangle, and maps
\* 0 to origin and 1000 to origin+extent-1.
C10_ToPxWithinScreen ==
    Mapped =>
        /\ px_out[1] \in vs[1]..(vs[1] + vs[3] - 1)
        /\ px_out[2] \in vs[2]..(vs[2] + vs[4] - 1)
        /\ px_in < CoordMax => /\ px_out[1] <= to_px(px_in + 1, "x", vs)
                               /\ px_out[2] <= to_px(px_in + 1, "y", vs)
        /\ px_in = 0 => px_out = <<vs[1], vs[2]>>
        /\ px_in = CoordMax => px_out = <<vs[1] + vs[3] - 1, vs[2] + vs[4] - 1>>

\* C10 amended: to_px is monotonic nondecreasing over [0,1000], returns a pixel
\* within [origin, origin+extent] and maps 0 to origin and 1000 to
\* origin+extent, one past the last pixel; the pixel the cursor is sent to,
\* which is to_px clamped by _mouse_abs, is monotonic nondecreasing, lies
\* within [origin, origin+extent-1] and is origin for 0 and origin+extent-1
\* for 1000, and the absolute coordinate handed to the OS lies within
\* [0, 65535], being 0 for 0 and, on an extent above 1, 65535 for 1000.
C10_ToPxClamped ==
    Mapped =>
        LET cx == ClampPx(px_out[1], vs[1], vs[3])
            cy == ClampPx(px_out[2], vs[2], vs[4])
            nx == to_px(px_in + 1, "x", vs)
            ny == to_px(px_in + 1, "y", vs)
        IN  /\ px_out[1] \in vs[1]..(vs[1] + vs[3])
            /\ px_out[2] \in vs[2]..(vs[2] + vs[4])
            /\ cx \in vs[1]..(vs[1] + vs[3] - 1)
            /\ cy \in vs[2]..(vs[2] + vs[4] - 1)
            /\ px_abs[1] \in 0..AbsMax
            /\ px_abs[2] \in 0..AbsMax
            /\ px_in < CoordMax =>
                  /\ px_out[1] <= nx
                  /\ px_out[2] <= ny
                  /\ cx <= ClampPx(nx, vs[1], vs[3])
                  /\ cy <= ClampPx(ny, vs[2], vs[4])
                  /\ px_abs[1] <= _mouse_abs(nx, ny, vs[1], vs[2], vs[3], vs[4])[1]
                  /\ px_abs[2] <= _mouse_abs(nx, ny, vs[1], vs[2], vs[3], vs[4])[2]
            /\ px_in = 0 =>
                  /\ px_out = <<vs[1], vs[2]>>
                  /\ px_abs = <<0, 0>>
            /\ px_in = CoordMax =>
                  /\ px_out = <<vs[1] + vs[3], vs[2] + vs[4]>>
                  /\ <<cx, cy>> = <<vs[1] + vs[3] - 1, vs[2] + vs[4] - 1>>
                  /\ px_abs[1] = (IF vs[3] > 1 THEN AbsMax ELSE 0)
                  /\ px_abs[2] = (IF vs[4] > 1 THEN AbsMax ELSE 0)

\* C10 witness: the ceiling coordinate on a 1920 pixel wide screen with a
\* negative origin is mapped one past the last column and clamped back.
C10_Witness ==
    /\ Mapped
    /\ px_in = CoordMax
    /\ vs[1] < 0
    /\ vs[3] = 1920
    /\ px_out[1] = vs[1] + 1920
    /\ px_abs[1] = AbsMax

-----------------------------------------------------------------------------
(* Properties of the parser (SpecParse) *)

Parsed == pc = "parse_done"

\* A token float() accepts
IsNumeric(t) == IntOfFloat(t)[1]

AllNumeric(args) == \A j \in DOMAIN args : IsNumeric(args[j])

IsPointer(cmd) == cmd[1] \in {"click", "drag"}

\* A CLICK line with exactly 2 numeric tokens, a DRAG line with exactly 4
ExactPointerLine(line) ==
    /\ line # <<>>
    /\ \/ upper(line[1]) = KW_CLICK /\ Len(line) = 3
       \/ upper(line[1]) = KW_DRAG /\ Len(line) = 5
    /\ AllNumeric(Tail(line))

\* C11: parse_commands emits a Click command only for a CLICK line with
\* exactly 2 numeric argument tokens and a Drag command only for a DRAG line
\* with exactly 4 numeric argument tokens; any other CLICK or DRAG line
\* contributes no command: every click or drag command has numeric
\* arguments only, and there are as many of them as there are such lines.
C11_ExactNumericArgs ==
    Parsed =>
        /\ \A k \in DOMAIN commands : IsPointer(commands[k]) => AllNumeric(commands[k][2])
        /\ Len(SelectSeq(commands, IsPointer)) = Len(SelectSeq(in_content, ExactPointerLine))

Keywords == {KW_CLICK, KW_DRAG, KW_TYPE, KW_KEY, KW_PYTHON_EXECUTE, KW_WAIT}

\* An empty line, a line starting with # or a line whose first token is no keyword
Skipped(line) ==
    \/ line = <<>>
    \/ line[1][1] = "#"
    \/ upper(line[1]) \notin Keywords

\* The argument tokens a keyword needs at least
NeededArgs(kw) ==
    IF kw = KW_CLICK THEN 2
    ELSE IF kw = KW_DRAG THEN 4
    ELSE IF kw \in {KW_KEY, KW_WAIT} THEN 1
    ELSE 0

Contributes(line) == ~Skipped(line) /\ Len(line) - 1 >= NeededArgs(upper(line[1]))

\* The keyword an action stands for
ActionKeyword(action) ==
    IF action = "click" THEN KW_CLICK
    ELSE IF action = "drag" THEN KW_DRAG
    ELSE IF action = "type" THEN KW_TYPE
    ELSE IF action = "key" THEN KW_KEY
    ELSE IF action = "python_execute" THEN KW_PYTHON_EXECUTE
    ELSE KW_WAIT

\* The command is the one its line stands for: the keyword whatever its case,
\* and the leading argument tokens, the key name in lower case
FromLine(cmd, line) ==
    /\ ActionKeyword(cmd[1]) = upper(line[1])
    /\ cmd[1] \in {"click", "drag", "wait"} =>
           cmd[2] = SubSeq(Tail(line), 1, NeededArgs(upper(line[1])))
    /\ cmd[1] = "key" => cmd[2] = <<lower(line[2])>>
    /\ cmd[1] \in {"type", "python_execute"} => cmd[2] = <<JoinSp(Tail(line))>>

\* C12: parse_commands returns on every text; the commands are in the order
\* of their lines and each line contributes at most one: the k-th command is
\* the one of the k-th contributing line; empty lines, lines starting with #
\* and lines with an unrecognized first token contribute nothing, the empty
\* text yields the empty sequence, the keyword is matched whatever its case,
\* and "CLICK 500 500\nKEY enter" yields click(500, 500) then key(enter).
C12_ParseInOrder ==
    Parsed =>
        /\ Len(commands) = Len(SelectSeq(in_content, Contributes))
        /\ \A k \in DOMAIN commands :
               FromLine(commands[k], SelectSeq(in_content, Contributes)[k])
        /\ in_content = <<>> => commands = <<>>
        /\ in_content = <<L_click500, L_keyenter>> =>
               commands = << <<"click", << <<"5", "0", "0">>, <<"5", "0", "0">> >> >>,
                             <<"key", << <<"e", "n", "t", "e", "r">> >> >> >>

\* C12 witness: a key line in capitals after a comment line was parsed to
\* the one lower-case key command.
C12_Witness ==
    /\ Parsed
    /\ in_content = <<L_comment, L_key>>
    /\ commands = << <<"key", << <<"e", "n", "t", "e", "r">> >> >> >>

-----------------------------------------------------------------------------
(* Properties of the sandbox (SpecPy) *)

PyDone == pc = "py_done"

\* The execution of the code threw
Threw == Exec(in_code, in_context).err # <<>>

\* C13: execute_python never raises: for every code whose execution throws,
\* also after it has assigned or modified variables, it returns a summary of
\* the form "ERROR: <kind>: <message>" and a context equal to the input
\* context, no binding added, removed or changed.
C13_ErrorKeepsContext ==
    (PyDone /\ Threw) =>
        /\ startswith(out_result, T_ERROR)
        /\ Len(out_result) > Len(T_ERROR)
        /\ out_context = in_context

\* A namespace entry that is neither the allow-list itself, nor named as an
\* allow-listed built-in, nor a key of the input context
IsNewEntry(b) ==
    /\ b[1] # N_builtins
    /\ b[1] \notin safe_builtins
    /\ ~HasKey(in_context, b[1])

\* name = value pairs joined by "; ", or OK
Listing(bindings) ==
    IF bindings = <<>> THEN <<"O", "K">>
    ELSE JoinWith([i \in DOMAIN bindings |->
                      bindings[i][1] \o <<" ", "=", " ">> \o Str(bindings[i][2])],
                  <<";", " ">>)

\* C14: after a successful execute_python every namespace entry that is
\* neither an allow-listed built-in nor a key of the input context is a new
\* binding: the summary lists exactly these as name = value pairs in creation
\* order joined by "; ", or is OK when there is none, and each of them is in
\* the returned context.
C14_NewBindingsListed ==
    (PyDone /\ ~Threw) =>
        /\ out_result = Listing(SelectSeq(namespace, IsNewEntry))
        /\ \A i \in DOMAIN namespace :
               IsNewEntry(namespace[i]) =>
                  /\ HasKey(out_context, namespace[i][1])
                  /\ Lookup(out_context, namespace[i][1]) = namespace[i][2]

-----------------------------------------------------------------------------
(* Properties of the dispatcher (SpecExec) *)

\* Whether the branch of a command throws; it does not depend on the context.
Fails(cmd) == RunCommand(cmd, vs, <<>>).raised

\* OS calls without the context a sandbox run was given
EraseCtx(evs) ==
    [i \in DOMAIN evs |-> IF evs[i][1] = "exec" THEN <<"exec", evs[i][2]>> ELSE evs[i]]

\* The OS calls of one command that does not fail
Footprint(cmd) == EraseCtx(RunCommand(cmd, vs, <<>>).evs)

RECURSIVE Flatten(_)
Flatten(seqs) == IF seqs = <<>> THEN <<>> ELSE seqs[1] \o Flatten(Tail(seqs))

IsErrorText(r) == r[1] = "ERROR"

Dispatched == pc = "exec_done"

\* C2: execute_commands dispatches the commands strictly in list order; a
\* failing command is recorded as one error text in the results and does
\* not keep any later command from being dispatched: the OS calls made are
\* those of the non-failing commands, in list order, and the error texts are
\* one per failing command, in list order.
C2_DispatchInOrder ==
    Dispatched =>
        /\ EraseCtx(events) =
              Flatten([i \in DOMAIN commands |->
                          IF Fails(commands[i]) THEN <<>> ELSE Footprint(commands[i])])
        /\ SelectSeq(exec_results, IsErrorText) =
              LET failing == SelectSeq(commands, Fails)
              IN  [i \in DOMAIN failing |-> <<"ERROR", failing[i][1]>>]
        /\ Len(exec_results) =
              Len(SelectSeq(commands, Fails))
              + Len(SelectSeq(commands, LAMBDA c : c[1] = "python_execute"))

\* C2 witness: a failing command came first and the command after it was
\* dispatched all the same.
C2_Witness ==
    /\ Dispatched
    /\ Len(commands) >= 2
    /\ Fails(commands[1])
    /\ ~Fails(commands[2])
    /\ Footprint(commands[2]) # <<>>
    /\ EraseCtx(events) = Footprint(commands[2])
    /\ exec_results[1] = <<"ERROR", commands[1][1]>>

\* Number of OS calls made before command i is dispatched
CallsBefore(i) ==
    Len(Flatten([j \in 1..(i - 1) |->
                    IF Fails(commands[j]) THEN <<>> ELSE Footprint(commands[j])]))

\* The OS calls `from`..`from + n - 1` of the dispatch
Calls(from, n) == SubSeq(EraseCtx(events), from, from + n - 1)

\* One SendInput call moving the cursor to the point (x, y) of the 0..1000 grid
MoveTo(x, y) ==
    <<"send", << <<"move">> \o _mouse_abs(to_px(IntOfFloat(x)[2], "x", vs),
                                         to_px(IntOfFloat(y)[2], "y", vs),
                                         vs[1], vs[2], vs[3], vs[4]) >> >>

Pause(ms) == <<"sleep", ms * 1000>>

Press == <<"send", << <<"down">> >> >>

Release == <<"send", << <<"up">> >> >>

\* C16: dispatching a Drag emits its steps in exactly this order: move to
\* start, wait 20 ms, button-down, wait 60 ms, move to end, wait 40 ms,
\* button-up, wait 50 ms, and nothing between them.
C16_DragSteps ==
    Dispatched =>
        \A i \in DOMAIN commands :
            (commands[i][1] = "drag" /\ ~Fails(commands[i])) =>
                /\ Len(events) >= CallsBefore(i) + 8
                /\ Calls(CallsBefore(i) + 1, 8) =
                      << MoveTo(commands[i][2][1], commands[i][2][2]), Pause(20),
                         Press, Pause(60),
                         MoveTo(commands[i][2][3], commands[i][2][4]), Pause(40),
                         Release, Pause(50) >>
                /\ CallsBefore(i + 1) = CallsBefore(i) + 8

\* C16 witness: a drag from (0, 0) to (1000, 500) was dispatched after
\* another command, the button going down at the top left corner.
C16_Witness ==
    /\ Dispatched
    /\ Len(commands) = 2
    /\ commands[2] = <<"drag", << <<"0">>, <<"0">>, <<"1", "0", "0", "0">>, <<"5", "0", "0">> >> >>
    /\ ~Fails(commands[1])
    /\ CallsBefore(2) > 0
    /\ Len(events) = CallsBefore(2) + 8
    /\ events[CallsBefore(2) + 1] = <<"send", << <<"move", 0, 0>> >> >>
    /\ events[CallsBefore(2) + 3] = Press
    /\ events[CallsBefore(2) + 5] = <<"send", << <<"move", AbsMax, 32798>> >> >>
    /\ events[CallsBefore(2) + 7] = Release

IsSend(e) == e[1] = "send"

Ran(i, action) == commands[i][1] = action /\ ~Fails(commands[i])

\* The batch of one typed text: key-down, key-up of each character in turn
IsTextBatch(call, text) ==
    /\ call[1] = "send"
    /\ Len(call[2]) = 2 * Len(text)
    /\ \A j \in DOMAIN text :
           /\ call[2][2 * j - 1] = <<"unicode", text[j], "down">>
           /\ call[2][2 * j] = <<"unicode", text[j], "up">>

\* The SendInput calls a command makes by the claim: one per gesture step
GestureSteps(cmd) ==
    IF Fails(cmd) THEN 0
    ELSE IF cmd[1] = "click" THEN 2
    ELSE IF cmd[1] = "drag" THEN 4
    ELSE IF cmd[1] = "key" /\ HasKey(VK_MAP, cmd[2][1]) THEN 1
    ELSE IF cmd[1] = "type" /\ cmd[2][1] # <<>> THEN 1
    ELSE 0

RECURSIVE SumSteps(_)
SumSteps(cmds) == IF cmds = <<>> THEN 0 ELSE GestureSteps(cmds[1]) + SumSteps(Tail(cmds))

\* C17: a click submits exactly one button-down immediately followed by
\* exactly one button-up, and the events of each gesture step (the click's
\* down/up pair, a key's down/up pair, all key events of one typed text) go
\* to the OS as one batch in one SendInput call.
C17_OneBatchPerStep ==
    Dispatched =>
        /\ \A i \in DOMAIN commands :
               /\ Ran(i, "click") =>
                      Calls(CallsBefore(i) + 1, 4) =
                         << MoveTo(commands[i][2][1], commands[i][2][2]), Pause(20),
                            <<"send", << <<"down">>, <<"up">> >> >>, Pause(50) >>
               /\ (Ran(i, "key") /\ HasKey(VK_MAP, commands[i][2][1])) =>
                      Calls(CallsBefore(i) + 1, 2) =
                         << <<"send", << <<"vk", Lookup(VK_MAP, commands[i][2][1]), "down">>,
                                        <<"vk", Lookup(VK_MAP, commands[i][2][1]), "up">> >> >>,
                            Pause(50) >>
               /\ (Ran(i, "type") /\ commands[i][2][1] # <<>>) =>
                      /\ IsTextBatch(events[CallsBefore(i) + 1], commands[i][2][1])
                      /\ events[CallsBefore(i) + 2] = Pause(40)
                      /\ CallsBefore(i + 1) = CallsBefore(i) + 2
        /\ Len(SelectSeq(events, IsSend)) = SumSteps(commands)

\* C17 witness: a click and a typed text of six characters were dispatched:
\* the third call is the batch down, up and the fifth holds twelve key events.
C17_Witness ==
    /\ Dispatched
    /\ Len(commands) = 2
    /\ Ran(1, "click")
    /\ Ran(2, "type")
    /\ Len(events) = 6
    /\ events[3] = <<"send", << <<"down">>, <<"up">> >> >>
    /\ events[5][1] = "send"
    /\ Len(events[5][2]) = 12

IsButton(item) == item[1] \in {"down", "up"}

\* The button events of a sequence of OS calls, in the order they are emitted
RECURSIVE Buttons(_)
Buttons(evs) ==
    IF evs = <<>> THEN <<>>
    ELSE (IF evs[1][1] = "send" THEN SelectSeq(evs[1][2], IsButton) ELSE <<>>)
         \o Buttons(Tail(evs))

\* Every button-down is followed by a button-up before anything else happens
\* to the button, and nothing is left pressed at the end
Balanced(b) ==
    /\ Len(b) % 2 = 0
    /\ \A k \in DOMAIN b : b[k] = (IF k % 2 = 1 THEN <<"down">> ELSE <<"up">>)

\* C20: the left mouse button is never left pressed by the dispatcher: for
\* every command list, failing commands included, every button-down emitted
\* is followed by a button-up before the next command is dispatched, and at
\* the end of execute_commands as many button-ups as button-downs were emitted.
C20_ButtonReleased ==
    Dispatched =>
        /\ Balanced(Buttons(events))
        /\ CallsBefore(Len(commands) + 1) = Len(events)
        /\ \A i \in DOMAIN commands :
               Balanced(Buttons(Calls(CallsBefore(i) + 1, CallsBefore(i + 1) - CallsBefore(i))))

\* C20 witness: a drag with an argument that is no number failed before any
\* event, and the drag after it pressed and released the button once.
C20_Witness ==
    /\ Dispatched
    /\ Len(commands) = 2
    /\ commands[1][1] = "drag"
    /\ Fails(commands[1])
    /\ Ran(2, "drag")
    /\ exec_results = << <<"ERROR", "drag">> >>
    /\ Buttons(events) = << <<"down">>, <<"up">> >>
    /\ Len(events) = 8

-----------------------------------------------------------------------------
(* Properties of the capture (SpecCap) *)

CapDone == pc = "cap_done"

\* An OS call of the capture failed
CaptureFailed == missed # {}

\* C18: every OS handle acquired by capture_screen (the screen device
\* context, the two memory device contexts, the two bitmaps) is released on
\* every exit path, normal return and failure at any step, so that no handle
\* is outstanding after the call; a failed capture raises an error and
\* returns no image.
C18_ReleasedAndRaised ==
    CapDone =>
        /\ held = {}
        /\ CaptureFailed => capture_result = "raise"

-----------------------------------------------------------------------------
(* Properties of the image encoding (SpecPng) *)

PngDone == pc = "png_done"

\* The 12 + n elements of a chunk with an n-element payload starting at `at`
IsChunkAt(stream, at, tag, n) ==
    /\ Len(stream) >= at + 11 + n
    /\ SubSeq(stream, at, at + 3) = PackU32(n)
    /\ SubSeq(stream, at + 4, at + 7) = tag
    /\ SubSeq(stream, at + 8 + n, at + 11 + n)
          = PackCrc(crc32(SubSeq(stream, at + 4, at + 7 + n)))

\* C19: encoding a W x H RGBA buffer and decoding the result reproduces the
\* identical W x H RGBA content, alpha fully opaque everywhere; the encoded
\* stream is the signature followed by exactly three chunks in the order
\* header, data, end, each laid out as length, tag, payload, checksum over
\* tag and payload, with every scanline prefixed by a zero filter byte.
C19_RoundTrip ==
    PngDone =>
        /\ decoded = <<"image", wv, hv, rgba>>
        /\ Len(rgba) = 4 * wv * hv
        /\ \A i \in DOMAIN rgba :
              rgba[i] = (IF i % 4 = 0 THEN B(255)
                         ELSE bgra[4 * ((i - 1) \div 4) + (3 - ((i - 1) % 4))])
        /\ SubSeq(png, 1, 8) = Signature
        /\ IsChunkAt(png, 9, T_IHDR, 13)
        /\ SubSeq(png, 17, 29) = PackU32(wv) \o PackU32(hv) \o Bytes(<<8, 6, 0, 0, 0>>)
        /\ IsChunkAt(png, 34, T_IDAT, 1)
        /\ png[42][1] = "deflated"
        /\ Len(png[42][2]) = hv * (4 * wv + 1)
        /\ \A y \in 0..(hv - 1) :
              /\ png[42][2][y * (4 * wv + 1) + 1] = B(0)
              /\ SubSeq(png[42][2], y * (4 * wv + 1) + 2, (y + 1) * (4 * wv + 1))
                    = SubSeq(rgba, y * 4 * wv + 1, (y + 1) * 4 * wv)
        /\ IsChunkAt(png, 47, T_IEND, 0)
        /\ Len(png) = 58

\* C19 witness: a 2 x 2 image whose pixels came back from the screen with an
\* alpha of 7 and of 0 was encoded and decoded to four opaque pixels, red first.
C19_Witness ==
    /\ PngDone
    /\ wv = 2
    /\ hv = 2
    /\ SubSeq(bgra, 1, 8) = Bytes(<<255, 128, 64, 7, 0, 0, 0, 0>>)
    /\ decoded[1] = "image"
    /\ SubSeq(decoded[4], 1, 8) = Bytes(<<64, 128, 255, 255, 0, 0, 0, 255>>)
    /\ Len(decoded[4]) = 16

-----------------------------------------------------------------------------
(* Properties of the main loop (Spec) *)

Last(q) == q[Len(q)]

StageOrder == <<"Capture", "Plan", "Act", "CaptureAfter", "Reflect">>

\* Outcomes after which the iteration goes on to its next statement
Continues(entry) ==
    entry \in {<<"Capture", "ok">>, <<"Plan", "text">>, <<"Plan", "nontext">>,
               <<"Act", "ok">>, <<"CaptureAfter", "ok">>}

\* Failure outcomes of the Plan call: it raised (endpoint unreachable, timeout,
\* reply that is no JSON or lacks a field), or its reply's content is no text.
PlanFailed == stages # <<>> /\ Last(stages) \in {<<"Plan", "raise">>, <<"Plan", "nontext">>}

LoopLeft == pc \in {"done", "crashed"}

\* C1: no error is fatal to the process: after every failure outcome of
\* capture, of the Plan call, of a command, of the sandbox or of the Reflect
\* call the loop goes on, and the loop is left through the stop check only;
\* the process never ends in an exception.
C1_NoFatalError == pc # "crashed"

\* C3: when the Plan call fails the cycle is aborted with no partial
\* mutation: Capture and Plan leave the observation and the sandbox context
\* as they are and emit nothing, and after a failed Plan nothing more of
\* the iteration runs: the next stage is Capture of a new iteration.
C3_PlanFailureAborts ==
    [][ /\ pc \in {"capture", "plan"} =>
              /\ observation' = observation
              /\ python_context' = python_context
              /\ events' = events
              /\ commands' = commands
        /\ (PlanFailed /\ stages' # stages) => (stages' = <<>> /\ pc' = "capture")
        /\ (PlanFailed /\ pc' # pc) => pc' \in {"loop", "capture", "done"} ]_vars

\* C7: the loop terminates only when the stop sentinel is observed, the
\* sentinel being polled once per iteration at the loop head: the loop is
\* left in no other way than by a poll that saw the sentinel, after which
\* nothing happens any more.
C7_LeftOnlyByStop ==
    [][ /\ LoopLeft' => (pc' = "done" /\ stop' /\ pc \in {"loop", "done"})
        /\ pc = "done" => UNCHANGED vars
        /\ stop' # stop => (stop' /\ UNCHANGED <<pc, step, observation, events, stages>>) ]_vars

\* The pause, in microseconds, made by the calls of evs from position k on
RECURSIVE PauseFrom(_, _)
PauseFrom(evs, k) ==
    IF k > Len(evs) THEN 0
    ELSE (IF evs[k][1] = "sleep" THEN evs[k][2] ELSE 0) + PauseFrom(evs, k + 1)

\* C9: the plan CLICK 250 800 / WAIT 500 makes exactly one cursor move, to
\* the pixel at 250/1000 of the width and 800/1000 of the height, exactly one
\* button-down/button-up pair, then a pause of at least 500 ms, then the
\* after-capture.
C9_ClickThenPause ==
    (pc = "after" /\ plan_text = <<"text", <<L_click, L_wait>> >>) =>
        LET sends == SelectSeq(events, IsSend)
            px == vs[1] + (250 * vs[3]) \div 1000
            py == vs[2] + (800 * vs[4]) \div 1000
            k == CHOOSE i \in DOMAIN events : events[i] = _mouse_click[1]
        IN  /\ sends = _mouse_move(px, py, vs) \o _mouse_click
            /\ PauseFrom(events, k) >= 500 * 1000
            /\ Last(stages) = <<"Act", "ok">>

ReflectEnds == pc = "reflect" /\ pc' = "loop"

\* C4 as stated: at the end of Reflect the observation is exactly the Reflect
\* reply when the call succeeds, and the previous observation with the
\* technical-error marker appended when it fails.
C4_ReplyVerbatim ==
    [][ReflectEnds =>
          IF Last(stages') = <<"Reflect", "text">>
          THEN observation' = reflect_text'[2]
          ELSE observation' = observation \o ErrorMarker(step)]_vars

\* C4 amended: at the end of Reflect the observation is the Reflect reply
\* with its leading and trailing whitespace removed when the call succeeds
\* (nothing of the previous observation is retained), and the previous
\* observation with the marker " [Step N technical error]" appended when the
\* call fails or its reply is no text.
C4_ReplyStripped ==
    [][ReflectEnds =>
          IF Last(stages') = <<"Reflect", "text">>
          THEN /\ observation' = strip(reflect_text'[2])
               /\ observation' = <<>> \/ ( /\ observation'[1] \notin Whitespace
                                           /\ Last(observation') \notin Whitespace )
               /\ Len(observation') <= Len(reflect_text'[2])
          ELSE /\ observation' = observation \o ErrorMarker(step)
               /\ Len(observation') > Len(observation)]_vars

\* C4 witness: a reply with surrounding whitespace became the observation
\* without it, and the Reflect call of the next iteration failed.
C4_Witness ==
    /\ pc = "loop"
    /\ step = 2
    /\ stages # <<>>
    /\ Last(stages) = <<"Reflect", "raise">>
    /\ reflect_text[1] = "text"
    /\ strip(reflect_text[2]) # reflect_text[2]
    /\ observation = strip(reflect_text[2]) \o ErrorMarker(2)

\* What a Reflect reply leaves as observation
ReplyObservations == {strip(t) : t \in ReflectTexts} \cup ReflectTexts

\* C5 as stated: the observation is never appended to: it always is the
\* initial string or the text of a single Reflect reply.
C5_NeverAppended == observation \in {InitialObservation} \cup ReplyObservations

EndsWith(t, suffix) ==
    /\ Len(t) >= Len(suffix)
    /\ SubSeq(t, Len(t) - Len(suffix) + 1, Len(t)) = suffix

\* obs is base followed by markers of increasing steps, none above n
RECURSIVE MarkedFrom(_, _, _)
MarkedFrom(obs, base, n) ==
    \/ obs = base
    \/ \E k \in 1..n :
          /\ EndsWith(obs, ErrorMarker(k))
          /\ MarkedFrom(SubSeq(obs, 1, Len(obs) - Len(ErrorMarker(k))), base, k - 1)

MaxTextLen(S) == CHOOSE n \in 0..200 : (\E t \in S : Len(t) = n) /\ (\A t \in S : Len(t) <= n)

\* C5 amended: the observation is wholly replaced by every successful Reflect
\* and is appended to by a failed Reflect only: it always is the initial
\* string or the stripped text of a single Reflect reply, followed by one
\* technical-error marker per Reflect failure since then, in step order; its
\* size is bounded by that of one reply or the initial string plus one
\* marker per iteration.
C5_ReplacedOrMarked ==
    /\ \E base \in {InitialObservation} \cup {strip(t) : t \in ReflectTexts} :
          MarkedFrom(observation, base, step)
    /\ Len(observation) <=
          MaxTextLen({InitialObservation} \cup ReflectTexts) + step * Len(ErrorMarker(step))

\* C5 witness: two Reflect failures in a row left two markers.
C5_Witness ==
    /\ pc = "loop"
    /\ step = 2
    /\ observation = InitialObservation \o ErrorMarker(1) \o ErrorMarker(2)

\* C6: within an iteration the stages run in the order Capture, Plan, Act,
\* CaptureAfter, Reflect only, each after the success of the one before;
\* input events and sandbox runs happen in Act only, Act dispatches only
\* after a successful Capture and a Plan that returned text, Reflect runs
\* only after a successful CaptureAfter, and an iteration begins only at the
\* loop head, when the one before has ended.
C6_StageInv ==
    /\ Len(stages) <= Len(StageOrder)
    /\ \A i \in DOMAIN stages :
          /\ stages[i][1] = StageOrder[i]
          /\ i < Len(stages) => Continues(stages[i])
          /\ stages[i] = <<"Act", "ok">> => stages[2] = <<"Plan", "text">>
    /\ events # <<>> => (Len(stages) >= 3 /\ stages[3] = <<"Act", "ok">>)
    /\ pc = "capture" => (stages = <<>> /\ step > 0)
    /\ pc = "plan" <=> (stages # <<>> /\ Last(stages) = <<"Capture", "ok">>)
    /\ pc = "act" <=> (stages # <<>> /\ Last(stages)[1] = "Plan" /\ Continues(Last(stages)))
    /\ pc = "after" <=> (stages # <<>> /\ Last(stages) = <<"Act", "ok">>)
    /\ pc = "reflect" <=> (stages # <<>> /\ Last(stages) = <<"CaptureAfter", "ok">>)

C6_StageStep ==
    /\ (events' # events \/ python_context' # python_context \/ commands' # commands)
          => ((pc = "act" /\ pc' = "after") \/ (pc = "loop" /\ pc' = "capture" /\ events' = <<>>
                                                /\ python_context' = python_context
                                                /\ commands' = commands))
    /\ step' # step =>
          /\ pc = "loop"
          /\ step' = step + 1
          /\ stages' = <<>>
          /\ stages = <<>> \/ ~Continues(Last(stages)) \/ Last(stages)[1] = "Reflect"
    /\ stages' # stages => (stages' = <<>> \/ stages' = Append(stages, Last(stages')))

C6_StagesInOrder == []C6_StageInv /\ [][C6_StageStep]_vars

\* C6 witness: an iteration ran all five stages and Act emitted input events.
C6_Witness ==
    /\ pc = "loop"
    /\ Len(stages) = 5
    /\ \E i \in DOMAIN events : events[i][1] = "send"
    /\ \E i \in DOMAIN events : events[i][1] = "exec"

ContextAfter(ev, r) == IF startswith(r[1], T_ERROR) THEN ev[3] ELSE r[2]

CalcContextAfter(ev) == ContextAfter(ev, execute_python(ev[2], ev[3]))

IsExec(ev) == ev[1] = "exec"

\* The sandbox runs `execs` of one dispatch hand the context on from each
\* to the next, from `before` to `after`
Threaded(execs, before, after) ==
    IF execs = <<>> THEN after = before
    ELSE /\ execs[1][3] = before
         /\ \A k \in 1..(Len(execs) - 1) : execs[k + 1][3] = CalcContextAfter(execs[k])
         /\ after = CalcContextAfter(execs[Len(execs)])

C15_Step ==
    IF pc = "act" /\ pc' = "after"
    THEN Threaded(SelectSeq(events', IsExec), python_context, python_context')
    ELSE python_context' = python_context

\* C15: the sandbox context is threaded through the whole run: it starts
\* empty, the context given to each Calculate is the one returned by the most
\* recent earlier successful Calculate, within one command list and across
\* iterations, completed or aborted, and no other step (Click, Drag,
\* TypeText, KeyPress, Wait, a failed Calculate, a failed capture or model
\* call) changes or clears it.
C15_ContextThreaded == (python_context = <<>>) /\ [][C15_Step]_vars

-----------------------------------------------------------------------------
(* Termination of the loop (SpecLive) *)

\* Once the STOP file is there no further iteration is begun, whatever the
\* outcomes of the iteration in progress, and the file stays
C21_Step ==
    stop => /\ stop'
            /\ step' = step
            /\ pc' = "capture" => pc = "capture"

\* C21: if the stop sentinel is present from some point on and every capture,
\* model call and command dispatch returns, successfully or with a failure,
\* the loop eventually terminates, after completing or aborting at most the
\* iteration in progress: no further iteration is begun, so no sequence of
\* capture, Plan or Reflect failures makes the loop skip the stop check.
C21_StopTerminates == (stop ~> LoopLeft) /\ [][C21_Step]_vars

\* C21 witness: the STOP file appeared after the second iteration had begun, its Plan call
\* raised, and the loop head reached by the continue left the loop.
C21_Witness ==
    /\ pc = "done"
    /\ stop
    /\ step = 2
    /\ stages = << <<"Capture", "ok">>, <<"Plan", "raise">> >>

====
